---- MODULE Spec2Model ----
(***************************************************************************)
(* Model of the Figma integration server of src/src/index.ts: the process  *)
(* wide cache (file list, per-file node lists, per-node details), the      *)
(* active-file pointer, the bounded tree traversal and the request         *)
(* handlers that read and write them.  Requests are served one at a time   *)
(* (each action is one whole handler or one whole call of a core           *)
(* function); the remote Figma API is an adversary that may fail or answer *)
(* differently on every call.                                              *)
(***************************************************************************)
EXTENDS Integers, Sequences, FiniteSets, TLC

\* ------------------------------------------------------------------ bounds
\* Number of requests served in one run of the model.
MaxRequests == 2

\* Largest maxNodes / maxDepth argument the function-level calls are tried with.
MaxNodesArg == 2
MaxDepthArg == 3

\* Largest maxResults argument a search is tried with, besides the default.
MaxResultsArg == 2

\* Number of requests served in one run of all the handlers together.
MaxHandled == 1

\* Largest limit argument a shallow scan is tried with, besides the default.
MaxLimitArg == 2

\* ------------------------------------------------------- program constants
DefaultMaxNodes == 50
DefaultMaxDepth == 3

\* ------------------------------------------------------------ value spaces
\* File keys the remote API may know (non-empty, as Figma keys are).
FileKeys == {"A", "B"}

\* A key string no remote file has, colliding with "A" + ":" + "1:2" when it
\* is joined with node id "2" into a node-detail cache key.
OddKey == "A:1"

\* String(undefined): what String() makes of an argument that is absent.
UndefinedStr == "undefined"

\* Marker of an absent request argument (JS undefined).
Missing == "<missing>"

NodeIds == {"1:2", "2"}

FileNames == {"Kit", "App"}

\* The characters of every key, node id, node name and query string the
\* model uses.
Chars(s) ==
  CASE s = "A"         -> <<"A">>
    [] s = "B"         -> <<"B">>
    [] s = "A:1"       -> <<"A", ":", "1">>
    [] s = "1:2"       -> <<"1", ":", "2">>
    [] s = "2"         -> <<"2">>
    [] s = "undefined" -> <<"u", "n", "d", "e", "f", "i", "n", "e", "d">>
    [] s = "Document"   -> <<"D", "o", "c", "u", "m", "e", "n", "t">>
    [] s = "Page 1"     -> <<"P", "a", "g", "e", " ", "1">>
    [] s = "Page 2"     -> <<"P", "a", "g", "e", " ", "2">>
    [] s = "Footer"     -> <<"F", "o", "o", "t", "e", "r">>
    [] s = "Navbar"     -> <<"N", "a", "v", "b", "a", "r">>
    [] s = "Navigation" -> <<"N", "a", "v", "i", "g", "a", "t", "i", "o", "n">>
    [] s = "nav-icon"   -> <<"n", "a", "v", "-", "i", "c", "o", "n">>
    [] s = "Layer"      -> <<"L", "a", "y", "e", "r">>
    [] s = "nav-deep"   -> <<"n", "a", "v", "-", "d", "e", "e", "p">>
    [] s = "nav-deeper" -> <<"n", "a", "v", "-", "d", "e", "e", "p", "e", "r">>
    [] s = "nav"        -> <<"n", "a", "v">>
    [] s = "NAV"        -> <<"N", "A", "V">>
    [] s = "n.v"        -> <<"n", ".", "v">>
    [] s = "av("        -> <<"a", "v", "(">>
    [] s = "oo"         -> <<"o", "o">>
    [] s = "1:3"        -> <<"1", ":", "3">>
    [] s = "3:2"        -> <<"3", ":", "2">>
    [] s = "3:3"        -> <<"3", ":", "3">>
    [] s = "3:4"        -> <<"3", ":", "4">>
    [] s = "9:0"        -> <<"9", ":", "0">>
    [] s = "file"       -> <<"f", "i", "l", "e">>
    [] s = "node"       -> <<"n", "o", "d", "e">>
    [] s = "figma:"     -> <<"f", "i", "g", "m", "a", ":">>
    [] s = "1:2/3"     -> <<"1", ":", "2", "/", "3">>
    [] s = "0:0"        -> <<"0", ":", "0">>
    [] s = "0:1"        -> <<"0", ":", "1">>
    [] s = "0:2"        -> <<"0", ":", "2">>
    [] s = "1:1"        -> <<"1", ":", "1">>
    [] s = "1:4"        -> <<"1", ":", "4">>
    [] s = "1:5"        -> <<"1", ":", "5">>
    [] s = "1:6"        -> <<"1", ":", "6">>
    [] s = "1:7"        -> <<"1", ":", "7">>
    [] s = "2:1"        -> <<"2", ":", "1">>
    [] s = "3:1"        -> <<"3", ":", "1">>
    [] s = "9:1"        -> <<"9", ":", "1">>
    [] s = ""          -> <<>>

\* `${fileKey}:${nodeId}`
CacheKey(fileKey, nodeId) == Chars(fileKey) \o <<":">> \o Chars(nodeId)

\* FigmaFile records.  lastModified is "now" for a record the server
\* synthesises (new Date().toISOString()) and "remote" for one a listing sent.
FigmaFile(key, name, lastModified) ==
  [key |-> key, name |-> name, lastModified |-> lastModified]

\* Bodies the /me/files endpoint may answer with (response.data.files).
RemoteListings ==
  { <<>>,
    <<FigmaFile("A", "Kit", "remote")>>,
    <<FigmaFile("B", "App", "remote"), FigmaFile("A", "Kit", "remote")>> }

\* Outcome of figmaApi.get('/me/files').
ListResponses ==
  {[ok |-> FALSE, files |-> <<>>]} \cup
  {[ok |-> TRUE, files |-> l] : l \in RemoteListings}

\* ------------------------------------------------------------ design trees
\* A document is a table of nodes; a node's children are indices into the
\* table, in document order; node 1 is response.data.document.  An absent
\* description is "" (both are falsy in `node.description || ...`).
Node(id, name, type, description, children) ==
  [id |-> id, name |-> name, type |-> type, description |-> description,
   children |-> children]

\* A realistic file: pages (CANVAS) under the document, frames and a
\* component set on the first page, deeper components below them.
\*   depth 0: 1   depth 1: 2, 3   depth 2: 4, 5, 6, 7   depth 3: 8, 9, 10
\*   depth 4: 11
DocKit ==
  << Node("0:0", "Document", "DOCUMENT", "", <<2, 3>>),
     Node("0:1", "Page 1", "CANVAS", "", <<4, 5, 6>>),
     Node("0:2", "Page 2", "CANVAS", "", <<7>>),
     Node("1:1", "Title", "TEXT", "", <<>>),
     Node("1:2", "Navbar", "FRAME", "Top bar", <<8>>),
     Node("1:3", "Button", "COMPONENT_SET", "", <<9, 10>>),
     Node("2:1", "Footer", "INSTANCE", "", <<>>),
     Node("1:4", "nav-icon", "COMPONENT", "", <<11>>),
     Node("1:5", "Button/primary", "COMPONENT", "", <<>>),
     Node("1:6", "Button/ghost", "INSTANCE", "", <<>>),
     Node("1:7", "Glyph", "FRAME", "", <<>>) >>

\* A file whose first child of the root is not a frame but holds one, and
\* whose second child is a frame: the order of visit depends on the sort.
\*   depth 0: 1   depth 1: 2, 3   depth 2: 4, 5
DocApp ==
  << Node("0:0", "Document", "DOCUMENT", "", <<2, 3>>),
     Node("3:1", "Group", "GROUP", "", <<4>>),
     Node("3:2", "Screen", "FRAME", "", <<5>>),
     Node("3:3", "Inner", "FRAME", "", <<>>),
     Node("3:4", "Card", "COMPONENT", "A card", <<>>) >>

\* A file whose root is itself a component, with one vector below it.
DocOdd ==
  << Node("9:0", "Lone", "COMPONENT", "", <<2>>),
     Node("9:1", "Path", "VECTOR", "", <<>>) >>

\* The type the model gives a child that is null in the remote's answer.
NullType == "null"

\* A malformed file: a frame with a frame below it, and then a page whose
\* only child is null (a single child is never handed to the comparator of
\* the sort, so the null is met by the visit itself).
\*   depth 0: 1   depth 1: 2, 3   depth 2: 4, 5 (null)
DocBroken ==
  << Node("6:0", "Document", "DOCUMENT", "", <<2, 3>>),
     Node("6:1", "Hero", "FRAME", "", <<4>>),
     Node("6:2", "Page 1", "CANVAS", "", <<5>>),
     Node("6:3", "Badge", "FRAME", "", <<>>),
     Node("6:4", "", NullType, "", <<>>) >>

DocNames == {"DocKit", "DocApp", "DocOdd"}

Doc(d) ==
  CASE d = "DocKit" -> DocKit
    [] d = "DocApp" -> DocApp
    [] d = "DocOdd" -> DocOdd
    [] d = "DocBroken" -> DocBroken

\* String.prototype.toLowerCase on the node types the documents use.
ToLowerCase(type) ==
  CASE type = "FRAME"         -> "frame"
    [] type = "COMPONENT"     -> "component"
    [] type = "COMPONENT_SET" -> "component_set"
    [] type = "INSTANCE"      -> "instance"
    [] type = "DOCUMENT"      -> "document"
    [] type = "CANVAS"        -> "canvas"
    [] type = "TEXT"          -> "text"
    [] type = "GROUP"         -> "group"
    [] type = "VECTOR"        -> "vector"

\* Outcome of figmaApi.get(`/files/${fileKey}`): response.data.name and
\* response.data.document.  Only a key of FileKeys can be answered.
FileResponses(fileKey) ==
  {[ok |-> FALSE, name |-> "", document |-> ""]} \cup
  (IF fileKey \in FileKeys
     THEN {[ok |-> TRUE, name |-> n, document |-> d] :
             n \in FileNames, d \in DocNames}
     ELSE {})

\* The same outcomes as a caller that reads only response.data.name, or only
\* response.data.document, can tell them apart.
NameResponses(fileKey) ==
  {r \in FileResponses(fileKey) : r.ok => r.document = "DocKit"}

DocResponses(fileKey) ==
  {r \in FileResponses(fileKey) : r.ok => r.name = "Kit"}

\* Stands for the response of a call that is not issued.
NoResponse == [ok |-> FALSE, name |-> "", document |-> ""]

\* Node-detail blobs: "null" is response.data.nodes[nodeId] for a node the
\* file does not hold; "d1" is a blob with a document field and "nodoc" one
\* without.
NullDetail == "null"
DetailBlobs == {"d1", "nodoc"}

\* Stands for the response of a nodes call that is not issued.
NoNodes == [ok |-> FALSE, nodeData |-> "null"]

\* Outcome of figmaApi.get(`/files/${fileKey}/nodes?ids=${nodeId}`).
NodesResponses(fileKey) ==
  {[ok |-> FALSE, nodeData |-> NullDetail]} \cup
  (IF fileKey \in FileKeys
     THEN {[ok |-> TRUE, nodeData |-> b] : b \in DetailBlobs \cup {NullDetail}}
     ELSE {})

\* One remote call, as recorded in a request's call log; name is the
\* response.data.name a successful file call answered with.
Call(endpoint, fileKey, nodeId, ok, name) ==
  [endpoint |-> endpoint, fileKey |-> fileKey, nodeId |-> nodeId, ok |-> ok,
   name |-> name]

\* -------------------------------------------------------- bounded traversal
\* ['FRAME', 'COMPONENT', 'COMPONENT_SET'].includes(type)
IsImportant(type) == type \in {"FRAME", "COMPONENT", "COMPONENT_SET"}

\* The FigmaNode pushed for a matching node.
Summary(node) ==
  [id |-> node.id, name |-> node.name, type |-> node.type,
   description |-> IF node.description # "" THEN node.description
                   ELSE "A " \o ToLowerCase(node.type) \o " from Figma"]

\* Mutant: the children are visited in document order.
SortedChildren_documentOrder(doc, children) == children

\* [...node.children].sort((a, b) => bIsImportant - aIsImportant): the sort
\* is stable, so it is the important children and then the others, each in
\* document order.
SortedChildren(doc, children) ==
  SelectSeq(children, LAMBDA c : IsImportant(doc[c].type)) \o
  SelectSeq(children, LAMBDA c : ~IsImportant(doc[c].type))

RECURSIVE traverseNodes(_, _, _, _, _, _)
\* What the accumulator ends with once the visit has thrown: reading
\* node.type of a null node is a TypeError, which leaves every enclosing
\* call of traverseNodes at once.
TypeError == [id |-> "TypeError", name |-> "", type |-> "", description |-> ""]

Threw(nodes) == nodes # <<>> /\ nodes[Len(nodes)] = TypeError

RECURSIVE traverseChildren(_, _, _, _, _, _, _)

\* for (const child of sortedChildren) { traverseNodes(child, depth + 1);
\*   if (nodes.length >= maxNodes) break; }
traverseChildren(doc, sorted, i, depth, nodes, maxNodes, maxDepth) ==
  IF i > Len(sorted) THEN nodes
  ELSE LET after == traverseNodes(doc, sorted[i], depth + 1, nodes,
                                  maxNodes, maxDepth)
       IN IF Threw(after) \/ Len(after) >= maxNodes THEN after
          ELSE traverseChildren(doc, sorted, i + 1, depth, after,
                                maxNodes, maxDepth)

\* traverseNodes(node, depth): the accumulator `nodes` after the visit.
traverseNodes(doc, n, depth, nodes, maxNodes, maxDepth) ==
  IF Len(nodes) >= maxNodes \/ depth >= maxDepth THEN nodes
  ELSE IF doc[n].type = NullType THEN Append(nodes, TypeError)
  ELSE LET node == doc[n]
           pushed == IF IsImportant(node.type)
                       THEN Append(nodes, Summary(node))
                       ELSE nodes
       IN IF IsImportant(node.type) /\ Len(pushed) >= maxNodes THEN pushed
          ELSE IF depth < maxDepth
            THEN traverseChildren(doc, SortedChildren(doc, node.children), 1,
                                  depth, pushed, maxNodes, maxDepth)
            ELSE pushed

\* ------------------------------------------------------- shallow top-level scan
\* Mutant: the scan selects the types the full traversal selects.
isComponentLike_important(type) ==
  type \in {"COMPONENT", "COMPONENT_SET", "FRAME"}

\* isComponentLike(node), on the type of the node.
isComponentLike(type) ==
  type \in {"COMPONENT", "COMPONENT_SET", "FRAME", "INSTANCE"}

\* The Component pushed for a component-like node (description || "").
Component(node) ==
  [id |-> node.id, name |-> node.name, type |-> node.type,
   description |-> node.description]

\* for (const childNode of node.children) if (isComponentLike(childNode))
\*   components.push(...)
scanSet(doc, children, components) ==
  components \o
  [j \in 1..Len(SelectSeq(children, LAMBDA c : isComponentLike(doc[c].type))) |->
     Component(doc[SelectSeq(children,
                             LAMBDA c : isComponentLike(doc[c].type))[j]])]

RECURSIVE scanPage(_, _, _, _, _)
\* for (const node of page.children): a component-like node is pushed, then
\* the component-like children of a COMPONENT_SET, and only then is the
\* limit looked at.
scanPage(doc, children, i, components, limit) ==
  IF i > Len(children) THEN components
  ELSE LET node == doc[children[i]]
       IN IF ~isComponentLike(node.type)
            THEN scanPage(doc, children, i + 1, components, limit)
            ELSE LET pushed == Append(components, Component(node))
                     after == IF node.type = "COMPONENT_SET"
                                THEN scanSet(doc, node.children, pushed)
                                ELSE pushed
                 IN IF Len(after) >= limit THEN after
                    ELSE scanPage(doc, children, i + 1, after, limit)

RECURSIVE scanPages(_, _, _, _, _)
\* for (const page of document.children): the page itself when it is
\* component-like, then its children; the limit is looked at after each page.
scanPages(doc, pages, i, components, limit) ==
  IF i > Len(pages) THEN components
  ELSE LET page == doc[pages[i]]
           pushed == IF isComponentLike(page.type)
                       THEN Append(components, Component(page))
                       ELSE components
           after == scanPage(doc, page.children, 1, pushed, limit)
       IN IF Len(after) >= limit THEN after
          ELSE scanPages(doc, pages, i + 1, after, limit)

DefaultLimit == 10

\* fetchTopLevelComponents(fileKey, limit): the components returned, or the
\* error thrown when the fetch fails.
fetchTopLevelComponents(fileKey, limit, resp) ==
  IF resp.ok
    THEN [result |-> scanPages(Doc(resp.document), Doc(resp.document)[1].children,
                               1, <<>>, limit),
          raised |-> FALSE, error |-> "",
          calls |-> <<Call("file", fileKey, "", TRUE, resp.name)>>]
    ELSE [result |-> <<>>, raised |-> TRUE,
          error |-> "Failed to fetch components from file",
          calls |-> <<Call("file", fileKey, "", FALSE, "")>>]

\* -------------------------------------------------------------- name search
\* Documents for the search by name.  A node without a name has name "" and
\* one without a type has type "" (absent and empty are both falsy in
\* `node.name && ...`, `node.type || "Unknown"`).
\*   pre-order: Document, Page 1, Footer, Navbar, nav-icon, Navigation,
\*              Page 2, (nameless), Navbar
DocNav ==
  << Node("0:0", "Document", "DOCUMENT", "", <<2, 3>>),
     Node("0:1", "Page 1", "CANVAS", "", <<4, 5, 6>>),
     Node("0:2", "Page 2", "CANVAS", "", <<7>>),
     Node("4:1", "Footer", "FRAME", "", <<>>),
     Node("4:2", "Navbar", "FRAME", "Top bar", <<8>>),
     Node("4:3", "Navigation", "TEXT", "", <<>>),
     Node("4:4", "", "", "", <<9>>),
     Node("4:5", "nav-icon", "VECTOR", "", <<>>),
     Node("4:6", "Navbar", "", "", <<>>) >>

DeepIds ==
  <<"5:0", "5:1", "5:2", "5:3", "5:4", "5:5", "5:6", "5:7", "5:8", "5:9",
    "5:10", "5:11", "5:12">>

\* A chain of thirteen nodes, one per depth 0..12; the nodes at depth 10, 11
\* and 12 are the only ones with "nav" in the name.
DocDeep ==
  [d \in 1..13 |->
     Node(DeepIds[d],
          IF d = 1 THEN "Document" ELSE IF d = 11 THEN "nav-deep"
          ELSE IF d > 11 THEN "nav-deeper" ELSE "Layer",
          IF d = 1 THEN "DOCUMENT" ELSE "FRAME", "",
          IF d < 13 THEN <<d + 1>> ELSE <<>>)]

SearchDocNames == {"DocNav", "DocDeep"}

SearchDoc(d) ==
  CASE d = "DocNav" -> DocNav
    [] d = "DocDeep" -> DocDeep

\* Outcome of figmaApi.get(`/files/${fileKey}`) as findNodesByName reads it.
SearchResponses(fileKey) ==
  {[ok |-> FALSE, name |-> "", document |-> ""]} \cup
  (IF fileKey \in FileKeys
     THEN {[ok |-> TRUE, name |-> "Kit", document |-> d] : d \in SearchDocNames}
     ELSE {})

UpperCase ==
  <<"A", "B", "C", "D", "E", "F", "G", "H", "I", "J", "K", "L", "M",
    "N", "O", "P", "Q", "R", "S", "T", "U", "V", "W", "X", "Y", "Z">>

LowerCase ==
  <<"a", "b", "c", "d", "e", "f", "g", "h", "i", "j", "k", "l", "m",
    "n", "o", "p", "q", "r", "s", "t", "u", "v", "w", "x", "y", "z">>

\* The case folding of the 'i' flag, on one character.
Fold(c) ==
  IF \E i \in 1..26 : UpperCase[i] = c
    THEN LowerCase[CHOOSE i \in 1..26 : UpperCase[i] = c]
    ELSE c

\* new RegExp(name, 'i') throws a SyntaxError: of the characters the queries
\* are made of, only an unmatched parenthesis makes a pattern invalid.
RegExpThrows(pattern) ==
  Len(SelectSeq(pattern, LAMBDA c : c = "(")) #
    Len(SelectSeq(pattern, LAMBDA c : c = ")"))

\* One pattern character against one character of the text: "." stands for
\* any character, every other character the queries use for itself, case
\* folded.
AtomMatches(p, c) == p = "." \/ Fold(p) = Fold(c)

\* namePattern.test(text) for a valid pattern without groups: the pattern
\* matches at some offset of the text.
RegExpTest(pattern, text) ==
  \E off \in 0..(Len(text) - Len(pattern)) :
    \A i \in 1..Len(pattern) : AtomMatches(pattern[i], text[off + i])

\* The FigmaNode pushed for a node whose name matches.
SearchSummary(node) ==
  [id |-> node.id, name |-> node.name,
   type |-> IF node.type # "" THEN node.type ELSE "Unknown",
   description |-> IF node.description # "" THEN node.description
                   ELSE IF node.type # ""
                     THEN "A " \o ToLowerCase(node.type) \o " from Figma"
                     ELSE "A node from Figma"]

\* Mutant: the pattern is tested against the name of every node, a node
\* without a name included.
nameMatches_anyNode(node, pattern) == RegExpTest(pattern, Chars(node.name))

\* node.name && namePattern.test(node.name)
nameMatches(node, pattern) ==
  node.name # "" /\ RegExpTest(pattern, Chars(node.name))

RECURSIVE searchNodes(_, _, _, _, _, _, _)
RECURSIVE searchChildren(_, _, _, _, _, _, _, _)

\* for (const child of node.children) { searchNodes(child, depth + 1,
\*   maxDepth); if (matchingNodes.length >= maxResults) break; }
searchChildren(doc, children, i, depth, maxDepth, matchingNodes, maxResults, pattern) ==
  IF i > Len(children) THEN matchingNodes
  ELSE LET after == searchNodes(doc, children[i], depth + 1, maxDepth,
                                matchingNodes, maxResults, pattern)
       IN IF Len(after) >= maxResults THEN after
          ELSE searchChildren(doc, children, i + 1, depth, maxDepth, after,
                              maxResults, pattern)

\* searchNodes(node, depth, maxDepth): matchingNodes after the visit.
searchNodes(doc, n, depth, maxDepth, matchingNodes, maxResults, pattern) ==
  IF depth > maxDepth \/ Len(matchingNodes) >= maxResults THEN matchingNodes
  ELSE LET node == doc[n]
           hit == nameMatches(node, pattern)
           pushed == IF hit THEN Append(matchingNodes, SearchSummary(node))
                     ELSE matchingNodes
       IN IF hit /\ Len(pushed) >= maxResults THEN pushed
          ELSE searchChildren(doc, node.children, 1, depth, maxDepth, pushed,
                              maxResults, pattern)

SearchMaxDepth == 10
DefaultMaxResults == 10

\* Mutant: the search stops one level earlier, at depth 9.
findNodesByName_shallower(fileKey, name, maxResults, resp) ==
  IF ~resp.ok
    THEN [result |-> <<>>, raised |-> TRUE,
          error |-> "Failed to search for nodes by name",
          calls |-> <<Call("file", fileKey, "", FALSE, "")>>]
  ELSE IF RegExpThrows(Chars(name))
    THEN [result |-> <<>>, raised |-> TRUE,
          error |-> "Failed to search for nodes by name",
          calls |-> <<Call("file", fileKey, "", TRUE, resp.name)>>]
  ELSE [result |-> searchNodes(SearchDoc(resp.document), 1, 0,
                               SearchMaxDepth - 1, <<>>, maxResults,
                               Chars(name)),
        raised |-> FALSE, error |-> "",
        calls |-> <<Call("file", fileKey, "", TRUE, resp.name)>>]

\* findNodesByName(fileKey, name, maxResults): the list returned, or the
\* error thrown when the fetch or the construction of the pattern fails.
findNodesByName(fileKey, name, maxResults, resp) ==
  IF ~resp.ok
    THEN [result |-> <<>>, raised |-> TRUE,
          error |-> "Failed to search for nodes by name",
          calls |-> <<Call("file", fileKey, "", FALSE, "")>>]
  ELSE IF RegExpThrows(Chars(name))
    THEN [result |-> <<>>, raised |-> TRUE,
          error |-> "Failed to search for nodes by name",
          calls |-> <<Call("file", fileKey, "", TRUE, resp.name)>>]
  ELSE [result |-> searchNodes(SearchDoc(resp.document), 1, 0, SearchMaxDepth,
                               <<>>, maxResults, Chars(name)),
        raised |-> FALSE, error |-> "",
        calls |-> <<Call("file", fileKey, "", TRUE, resp.name)>>]

\* ------------------------------------------------------------------- state
VARIABLES
  FIGMA_DEFAULT_FILE,  \* process.env.FIGMA_DEFAULT_FILE || '' (fixed at startup)
  activeFileKey,       \* state.activeFileKey
  cacheFiles,          \* cache.files
  cacheFileNodes,      \* cache.fileNodes: <<>> (no entry) or <<list>>, per key
  cacheNodeDetails,    \* cache.nodeDetails, per `${fileKey}:${nodeId}`
  served,              \* requests served so far (counted by Spec only)
  last,                \* what the latest request did and returned
  listFetched,         \* history: a /me/files call has succeeded
  firstNodes,          \* history: per key, the list of the first fetchFileNodes
                       \*   whose remote fetch succeeded (<<>> or <<list>>)
  detailFetched,       \* history: cache keys whose nodes call has succeeded
  lastSetKey,          \* history: key of the latest set_active_figma_file
                       \*   that reported success ("" before the first)
  listRefetched,       \* history: /me/files was called after it had succeeded
  nodesRefetched,      \* history: keys whose file was fetched by fetchFileNodes
                       \*   after a fetch of it by fetchFileNodes had succeeded
  detailRefetched,     \* history: cache keys whose nodes call was issued
                       \*   after it had succeeded
  listed,              \* history: the URIs list-resources has emitted
  prevFailed,          \* history: the call before the latest one, when every
                       \*   remote call it issued failed (<<>> otherwise)
  FIGMA_API_KEY,       \* process.env.FIGMA_API_KEY ("" when it is not set)
  pc,                  \* where the process is: "config" (before the check of
                       \*   the credential), "main" (before main() connects
                       \*   the transport), "serving", "done" (exited)
  exited,              \* <<>> or <<the status process.exit was called with>>
  tokensSeen,          \* history: format, file and text of every answer
                       \*   extract_design_tokens has given
  inFlight             \* the remote call a suspended fetchFigmaFiles() awaits:
                       \*   <<>> or <<call>> (written by SpecInterleaved only)

vars ==
  <<FIGMA_DEFAULT_FILE, activeFileKey, cacheFiles, cacheFileNodes,
    cacheNodeDetails, served, last, listFetched, firstNodes, detailFetched,
    lastSetKey, listRefetched, nodesRefetched, detailRefetched, listed,
    prevFailed, FIGMA_API_KEY, pc, exited, tokensSeen, inFlight>>

\* The variables of the start of the process.
startup == <<FIGMA_API_KEY, pc, exited>>

\* The variables no call of a core function and no handler writes: the start
\* of the process and the history of the resource, retry and token
\* specifications.
aux == <<listed, prevFailed, startup, tokensSeen, inFlight>>

\* Key strings a request may carry.
AllKeys == FileKeys \cup {OddKey, UndefinedStr}

\* Node id strings a tool request may end up with: a node id, a node id with
\* a slash in it, and String(undefined).
ParsedIds == NodeIds \cup {"1:2/3", UndefinedStr}

\* The node ids a traversal of a document of the remote can return.
DocumentIds ==
  UNION {{Doc(d)[i].id : i \in {j \in 1..Len(Doc(d)) :
                                 IsImportant(Doc(d)[j].type)}} : d \in DocNames}

\* The keys of cache.nodeDetails the requests can write: any key with a
\* parsed node id, a file's key with a node id of a traversal of the file.
DetailKeys ==
  {CacheKey(k, n) : k \in AllKeys, n \in ParsedIds} \cup
  {CacheKey(k, n) : k \in FileKeys, n \in DocumentIds}

\* cache.nodeDetails[cacheKey] of a key never written (JS undefined).
NoEntry == "NoEntry"

\* The observation of a request that has not said anything yet.  document
\* names the response.data.document a traversal of the request walked ("" when
\* it walked none).
NoObs ==
  [op |-> "none", fileKey |-> "", nodeId |-> "", maxNodes |-> 0,
   maxDepth |-> 0, result |-> <<>>, raised |-> FALSE, error |-> "",
   calls |-> <<>>, files |-> <<>>, document |-> "", name |-> "",
   maxResults |-> 0, uri |-> <<>>, format |-> "", payload |-> <<>>,
   scale |-> <<>>]

\* files.find(f => f.key === key): <<>> or <<the first such file>>.
Find(files, key) ==
  LET hits == SelectSeq(files, LAMBDA f : f.key = key)
  IN IF hits = <<>> THEN <<>> ELSE <<Head(hits)>>

\* -------------------------------------------------------------- core calls
\* The key whose direct fetch fetchFigmaFiles falls back to:
\* state.activeFileKey || FIGMA_DEFAULT_FILE.
FallbackKey(active, dflt) == IF active # "" THEN active ELSE dflt

\* Mutant: the file record is named after the key, not after the response.
directFileAccess_keyName(files, fileKey, directResp) ==
  IF directResp.ok
    THEN [files |-> <<FigmaFile(fileKey, fileKey, "now")>>,
          result |-> <<FigmaFile(fileKey, fileKey, "now")>>,
          calls |-> <<Call("file", fileKey, "", TRUE, directResp.name)>>,
          raised |-> FALSE]
    ELSE [files |-> files, result |-> <<>>,
          calls |-> <<Call("file", fileKey, "", FALSE, "")>>,
          raised |-> FALSE]

\* Mutant: a failed direct fetch is thrown on to the caller.
directFileAccess_rethrow(files, fileKey, directResp) ==
  IF directResp.ok
    THEN [files |-> <<FigmaFile(fileKey, directResp.name, "now")>>,
          result |-> <<FigmaFile(fileKey, directResp.name, "now")>>,
          calls |-> <<Call("file", fileKey, "", TRUE, directResp.name)>>,
          raised |-> FALSE]
    ELSE [files |-> files, result |-> <<>>,
          calls |-> <<Call("file", fileKey, "", FALSE, "")>>,
          raised |-> TRUE]

\* The fallback of fetchFigmaFiles: the direct fetch of one file by key.
directFileAccess(files, fileKey, directResp) ==
  IF directResp.ok
    THEN LET file == FigmaFile(fileKey, directResp.name, "now")
         IN [files |-> <<file>>, result |-> <<file>>,
             calls |-> <<Call("file", fileKey, "", TRUE, directResp.name)>>,
             raised |-> FALSE]
    ELSE [files |-> files, result |-> <<>>,
          calls |-> <<Call("file", fileKey, "", FALSE, "")>>,
          raised |-> FALSE]

\* Mutant: the cached list is not consulted, every call asks the remote.
fetchFigmaFiles_noCache(files, active, dflt, listResp, directResp) ==
  IF listResp.ok
    THEN [files |-> listResp.files, result |-> listResp.files,
          calls |-> <<Call("list", "", "", TRUE, "")>>, raised |-> FALSE]
  ELSE IF dflt # "" \/ active # ""
    THEN LET d == directFileAccess(files, FallbackKey(active, dflt), directResp)
         IN [d EXCEPT !.calls = <<Call("list", "", "", FALSE, "")>> \o d.calls]
  ELSE [files |-> files, result |-> <<>>,
        calls |-> <<Call("list", "", "", FALSE, "")>>, raised |-> FALSE]

\* fetchFigmaFiles(): the file list after the call, the list returned and the
\* remote calls issued.  directResp answers the direct fetch of the fallback.
fetchFigmaFiles(files, active, dflt, listResp, directResp) ==
  IF Len(files) > 0
    THEN [files |-> files, result |-> files, calls |-> <<>>, raised |-> FALSE]
  ELSE IF listResp.ok
    THEN [files |-> listResp.files, result |-> listResp.files,
          calls |-> <<Call("list", "", "", TRUE, "")>>, raised |-> FALSE]
  ELSE IF dflt # "" \/ active # ""
    THEN LET d == directFileAccess(files, FallbackKey(active, dflt), directResp)
         IN [d EXCEPT !.calls = <<Call("list", "", "", FALSE, "")>> \o d.calls]
  ELSE [files |-> files, result |-> <<>>,
        calls |-> <<Call("list", "", "", FALSE, "")>>, raised |-> FALSE]

\* Mutant: the pointer is not looked up, the first file is the answer.
getActiveFile_first(files, active, dflt, listResp, directResp) ==
  LET f == fetchFigmaFiles(files, active, dflt, listResp, directResp)
  IN [files |-> f.files, list |-> f.result, calls |-> f.calls,
      raised |-> f.raised,
      result |-> IF Len(f.result) = 0 THEN <<>> ELSE <<f.result[1]>>]

\* getActiveFile(): as fetchFigmaFiles, with result <<>> (null) or <<file>>
\* and `list` the file list it obtained.
getActiveFile(files, active, dflt, listResp, directResp) ==
  LET f == fetchFigmaFiles(files, active, dflt, listResp, directResp)
      found == IF active # "" THEN Find(f.result, active) ELSE <<>>
  IN [files |-> f.files, list |-> f.result, calls |-> f.calls,
      raised |-> f.raised,
      result |-> IF Len(f.result) = 0 THEN <<>>
                 ELSE IF found # <<>> THEN found
                 ELSE <<f.result[1]>>]

\* Mutant: the traversed list is returned but not written to the cache.
fetchFileNodes_noStore(entry, fileKey, maxNodes, maxDepth, resp) ==
  IF entry # <<>>
    THEN [entry |-> entry, result |-> entry[1], calls |-> <<>>]
  ELSE IF resp.ok
    THEN [entry |-> entry,
          result |-> traverseNodes(Doc(resp.document), 1, 0, <<>>,
                                   maxNodes, maxDepth),
          calls |-> <<Call("file", fileKey, "", TRUE, resp.name)>>]
  ELSE [entry |-> entry, result |-> <<>>,
        calls |-> <<Call("file", fileKey, "", FALSE, "")>>]

\* Mutant: the walk goes two levels further down than maxDepth allows.
fetchFileNodes_deeper(entry, fileKey, maxNodes, maxDepth, resp) ==
  IF entry # <<>>
    THEN [entry |-> entry, result |-> entry[1], calls |-> <<>>]
  ELSE IF resp.ok
    THEN [entry |-> <<traverseNodes(Doc(resp.document), 1, 0, <<>>,
                                    maxNodes, maxDepth + 2)>>,
          result |-> traverseNodes(Doc(resp.document), 1, 0, <<>>,
                                   maxNodes, maxDepth + 2),
          calls |-> <<Call("file", fileKey, "", TRUE, resp.name)>>]
  ELSE [entry |-> entry, result |-> <<>>,
        calls |-> <<Call("file", fileKey, "", FALSE, "")>>]

\* Mutant: the cache is given the list of a walk with the default count bound,
\* the caller the list of a walk with its own.
fetchFileNodes_storeFull(entry, fileKey, maxNodes, maxDepth, resp) ==
  IF entry # <<>>
    THEN [entry |-> entry, result |-> entry[1], calls |-> <<>>]
  ELSE IF resp.ok
    THEN [entry |-> <<traverseNodes(Doc(resp.document), 1, 0, <<>>,
                                    DefaultMaxNodes, maxDepth)>>,
          result |-> traverseNodes(Doc(resp.document), 1, 0, <<>>,
                                   maxNodes, maxDepth),
          calls |-> <<Call("file", fileKey, "", TRUE, resp.name)>>]
  ELSE [entry |-> entry, result |-> <<>>,
        calls |-> <<Call("file", fileKey, "", FALSE, "")>>]

\* Mutant: a failed fetch leaves the empty list behind as the key's entry.
fetchFileNodes_cacheFailure(entry, fileKey, maxNodes, maxDepth, resp) ==
  IF entry # <<>>
    THEN [entry |-> entry, result |-> entry[1], calls |-> <<>>]
  ELSE IF resp.ok
    THEN [entry |-> <<traverseNodes(Doc(resp.document), 1, 0, <<>>,
                                    maxNodes, maxDepth)>>,
          result |-> traverseNodes(Doc(resp.document), 1, 0, <<>>,
                                   maxNodes, maxDepth),
          calls |-> <<Call("file", fileKey, "", TRUE, resp.name)>>]
  ELSE [entry |-> << <<>> >>, result |-> <<>>,
        calls |-> <<Call("file", fileKey, "", FALSE, "")>>]

\* Mutant: the list is stored as it grows, so a traversal that throws leaves
\* behind what it had collected.
fetchFileNodes_incremental(entry, fileKey, maxNodes, maxDepth, resp) ==
  IF entry # <<>>
    THEN [entry |-> entry, result |-> entry[1], calls |-> <<>>]
  ELSE IF resp.ok
    THEN LET nodes == traverseNodes(Doc(resp.document), 1, 0, <<>>,
                                    maxNodes, maxDepth)
         IN IF Threw(nodes)
              THEN [entry |-> <<SubSeq(nodes, 1, Len(nodes) - 1)>>,
                    result |-> <<>>,
                    calls |-> <<Call("file", fileKey, "", TRUE, resp.name)>>]
              ELSE [entry |-> <<nodes>>, result |-> nodes,
                    calls |-> <<Call("file", fileKey, "", TRUE, resp.name)>>]
  ELSE [entry |-> entry, result |-> <<>>,
        calls |-> <<Call("file", fileKey, "", FALSE, "")>>]

\* fetchFileNodes(fileKey, maxNodes, maxDepth): the entry of cache.fileNodes
\* for the key after the call, the list returned and the remote calls.
fetchFileNodes(entry, fileKey, maxNodes, maxDepth, resp) ==
  IF entry # <<>>
    THEN [entry |-> entry, result |-> entry[1], calls |-> <<>>]
  ELSE IF resp.ok
    THEN LET nodes == traverseNodes(Doc(resp.document), 1, 0, <<>>,
                                    maxNodes, maxDepth)
         IN IF Threw(nodes)
              THEN [entry |-> entry, result |-> <<>>,
                    calls |-> <<Call("file", fileKey, "", TRUE, resp.name)>>]
              ELSE [entry |-> <<nodes>>, result |-> nodes,
                    calls |-> <<Call("file", fileKey, "", TRUE, resp.name)>>]
  ELSE [entry |-> entry, result |-> <<>>,
        calls |-> <<Call("file", fileKey, "", FALSE, "")>>]

\* if (cache.nodeDetails[cacheKey]): the entry is there and truthy.
Truthy(detail) == detail # NoEntry /\ detail # NullDetail

\* fetchNodeDetails(fileKey, nodeId): the entry of cache.nodeDetails for the
\* cache key after the call, the value returned and the remote calls.
fetchNodeDetails(entry, fileKey, nodeId, resp) ==
  IF Truthy(entry)
    THEN [entry |-> entry, result |-> entry, calls |-> <<>>]
  ELSE IF resp.ok
    THEN [entry |-> resp.nodeData, result |-> resp.nodeData,
          calls |-> <<Call("nodes", fileKey, nodeId, TRUE, "")>>]
  ELSE [entry |-> entry, result |-> NullDetail,
        calls |-> <<Call("nodes", fileKey, nodeId, FALSE, "")>>]

\* ----------------------------------------------------------------- history
\* Whether the call log holds a successful call of the endpoint.
Succeeded(calls, endpoint) ==
  \E i \in 1..Len(calls) : calls[i].endpoint = endpoint /\ calls[i].ok

Issued(calls, endpoint) ==
  \E i \in 1..Len(calls) : calls[i].endpoint = endpoint

\* Whether the call log, run after `before` (the endpoint had already
\* succeeded), calls the endpoint once it has succeeded.
CalledAgain(calls, endpoint, before) ==
  \/ before /\ Issued(calls, endpoint)
  \/ \E i, j \in 1..Len(calls) :
       /\ i < j
       /\ calls[i].endpoint = endpoint /\ calls[i].ok
       /\ calls[j].endpoint = endpoint

\* ------------------------------------------------------------------- start
\* The state of the module when it is loaded: nothing cached, nothing
\* served, the pointer at the configured default.
Loaded ==
  /\ FIGMA_DEFAULT_FILE \in FileKeys \cup {""}
  /\ activeFileKey = FIGMA_DEFAULT_FILE
  /\ cacheFiles = <<>>
  /\ cacheFileNodes = [k \in AllKeys |-> <<>>]
  /\ cacheNodeDetails = [c \in DetailKeys |-> NoEntry]
  /\ served = 0
  /\ last = NoObs
  /\ listFetched = FALSE
  /\ firstNodes = [k \in AllKeys |-> <<>>]
  /\ detailFetched = {}
  /\ lastSetKey = ""
  /\ listRefetched = FALSE
  /\ nodesRefetched = {}
  /\ detailRefetched = {}
  /\ listed = {}
  /\ prevFailed = <<>>
  /\ tokensSeen = {}
  /\ inFlight = <<>>

\* The server once it is serving: the credential was there and main() has
\* connected the transport.
Init ==
  /\ Loaded
  /\ FIGMA_API_KEY = "token"
  /\ pc = "serving"
  /\ exited = <<>>

\* The process when it starts, with or without the credential in its
\* environment.
Startup ==
  /\ Loaded
  /\ FIGMA_API_KEY \in {"", "token"}
  /\ pc = "config"
  /\ exited = <<>>

\* ----------------------------------------------------------- process start
\* Mutant: a missing credential is logged and the process goes on.
checkCredential_warn(key) == <<>>

\* if (!FIGMA_API_KEY) { console.error(...); process.exit(1); }: the status
\* the process exits with, <<>> when it goes on.
checkCredential(key) == IF key = "" THEN <<1>> ELSE <<>>

\* The top level of the module up to the construction of the server: the
\* environment is read and the credential checked.
LoadModule ==
  /\ pc = "config"
  /\ \E status \in {checkCredential(FIGMA_API_KEY)} :
       /\ exited' = status
       /\ pc' = IF status = <<>> THEN "main" ELSE "done"
  /\ UNCHANGED <<FIGMA_DEFAULT_FILE, activeFileKey, cacheFiles, cacheFileNodes,
                 cacheNodeDetails, served, last, listFetched, firstNodes,
                 detailFetched, lastSetKey, listRefetched, nodesRefetched,
                 detailRefetched, listed, prevFailed, FIGMA_API_KEY,
                 tokensSeen, inFlight>>

\* main(): server.connect(transport) succeeds and the server serves, or it
\* throws and the process exits with status 1.
Main ==
  /\ pc = "main"
  /\ \E connected \in BOOLEAN :
       IF connected
         THEN pc' = "serving" /\ exited' = exited
         ELSE pc' = "done" /\ exited' = <<1>>
  /\ UNCHANGED <<FIGMA_DEFAULT_FILE, activeFileKey, cacheFiles, cacheFileNodes,
                 cacheNodeDetails, served, last, listFetched, firstNodes,
                 detailFetched, lastSetKey, listRefetched, nodesRefetched,
                 detailRefetched, listed, prevFailed, FIGMA_API_KEY,
                 tokensSeen, inFlight>>

\* A request reaches a handler only through the connected transport.
Serving == pc = "serving"

\* ------------------------------------------------------ remote adversary
\* The answers the remote may give to the calls one fetchFigmaFiles() issues
\* from the given state: none when the cache answers, no direct fetch unless
\* the listing failed and there is a key to fall back to.
FilesRemotes(files, active, dflt) ==
  IF Len(files) > 0
    THEN {[list |-> [ok |-> FALSE, files |-> <<>>], direct |-> NoResponse]}
    ELSE UNION {
           {[list |-> l, direct |-> d] :
              d \in IF l.ok \/ FallbackKey(active, dflt) = ""
                      THEN {NoResponse}
                      ELSE NameResponses(FallbackKey(active, dflt))} :
           l \in ListResponses}

\* ---------------------------------------------------------- request inputs
\* request.params.arguments.fileKey of set_active_figma_file.
FileKeyArgs == FileKeys \cup {Missing, ""}

\* String(x) of an argument.
String(arg) == IF arg = Missing THEN UndefinedStr ELSE arg

\* request.params.arguments.fileUri of extract_design_tokens.
FileUriArgs ==
  {Missing, "A", "B", "figma://file/A", "figma://file/"}

\* fileUri.startsWith('figma://')
StartsWithFigma(uri) == uri \in {"figma://file/A", "figma://file/"}

\* fileUri.match(/^figma:\/\/file\/([^\/]+)$/): <<>> or <<matches[1]>>.
FileUriMatch(uri) == IF uri = "figma://file/A" THEN <<"A">> ELSE <<>>

\* -------------------------------------------------------------- operations
\* A call of fetchFigmaFiles() on its own.
FetchFigmaFiles ==
  /\ \E rem \in FilesRemotes(cacheFiles, activeFileKey, FIGMA_DEFAULT_FILE) :
       \E r \in {fetchFigmaFiles(cacheFiles, activeFileKey, FIGMA_DEFAULT_FILE,
                                rem.list, rem.direct)} :
          /\ cacheFiles' = r.files
          /\ last' = [NoObs EXCEPT !.op = "fetchFigmaFiles", !.result = r.result,
                                   !.raised = r.raised, !.calls = r.calls,
                                   !.files = r.result]
          /\ listFetched' = (listFetched \/ Succeeded(r.calls, "list"))
          /\ listRefetched' =
               (listRefetched \/ CalledAgain(r.calls, "list", listFetched))
  /\ UNCHANGED <<FIGMA_DEFAULT_FILE, activeFileKey, cacheFileNodes,
                 cacheNodeDetails, firstNodes, detailFetched, lastSetKey,
                 nodesRefetched, detailRefetched>>

\* What fetchFigmaFiles() leaves untouched at every step of it.
listingFrame ==
  <<FIGMA_DEFAULT_FILE, activeFileKey, cacheFileNodes, cacheNodeDetails,
    firstNodes, detailFetched, lastSetKey, nodesRefetched, detailRefetched>>

\* fetchFigmaFiles() up to its first await: nothing is cached, the listing
\* is requested and the caller is suspended.
ListingStart ==
  /\ inFlight = <<>>
  /\ Len(cacheFiles) = 0
  /\ inFlight' = <<Call("list", "", "", FALSE, "")>>
  /\ UNCHANGED <<cacheFiles, last, listFetched, listRefetched, listingFrame>>

\* fetchFigmaFiles() resumed with the answer of /me/files: the answered list
\* is assigned to cache.files; after a failure the fallback key is read from
\* the state as it is now and the direct fetch is awaited, or [] is returned.
ListingAnswered ==
  /\ inFlight # <<>> /\ inFlight[1].endpoint = "list"
  /\ \E resp \in ListResponses :
       /\ listFetched' = (listFetched \/ resp.ok)
       /\ listRefetched' = (listRefetched \/ listFetched)
       /\ IF resp.ok
            THEN /\ cacheFiles' = resp.files
                 /\ inFlight' = <<>>
                 /\ last' = [NoObs EXCEPT
                               !.op = "fetchFigmaFiles",
                               !.result = resp.files, !.files = resp.files,
                               !.calls = <<Call("list", "", "", TRUE, "")>>]
          ELSE IF FIGMA_DEFAULT_FILE # "" \/ activeFileKey # ""
            THEN /\ inFlight' =
                      <<Call("file",
                             FallbackKey(activeFileKey, FIGMA_DEFAULT_FILE),
                             "", FALSE, "")>>
                 /\ UNCHANGED <<cacheFiles, last>>
          ELSE /\ inFlight' = <<>>
               /\ last' = [NoObs EXCEPT
                             !.op = "fetchFigmaFiles",
                             !.calls = <<Call("list", "", "", FALSE, "")>>]
               /\ UNCHANGED cacheFiles
  /\ UNCHANGED listingFrame

\* fetchFigmaFiles() resumed with the answer of the direct fetch of the
\* fallback key: cache.files becomes the one file, or [] is returned.
DirectAnswered ==
  /\ inFlight # <<>> /\ inFlight[1].endpoint = "file"
  /\ \E resp \in NameResponses(inFlight[1].fileKey) :
       \E d \in {directFileAccess(cacheFiles, inFlight[1].fileKey, resp)} :
         /\ cacheFiles' = d.files
         /\ inFlight' = <<>>
         /\ last' = [NoObs EXCEPT
                       !.op = "fetchFigmaFiles",
                       !.result = d.result, !.files = d.result,
                       !.calls = <<Call("list", "", "", FALSE, "")>> \o d.calls]
  /\ UNCHANGED <<listFetched, listRefetched, listingFrame>>

\* A call of getActiveFile() on its own.
GetActiveFile ==
  /\ \E rem \in FilesRemotes(cacheFiles, activeFileKey, FIGMA_DEFAULT_FILE) :
       \E r \in {getActiveFile(cacheFiles, activeFileKey, FIGMA_DEFAULT_FILE,
                              rem.list, rem.direct)} :
          /\ cacheFiles' = r.files
          /\ last' = [NoObs EXCEPT !.op = "getActiveFile", !.result = r.result,
                                   !.raised = r.raised, !.calls = r.calls,
                                   !.files = r.list]
          /\ listFetched' = (listFetched \/ Succeeded(r.calls, "list"))
          /\ listRefetched' =
               (listRefetched \/ CalledAgain(r.calls, "list", listFetched))
  /\ UNCHANGED <<FIGMA_DEFAULT_FILE, activeFileKey, cacheFileNodes,
                 cacheNodeDetails, firstNodes, detailFetched, lastSetKey,
                 nodesRefetched, detailRefetched>>

\* Mutant: the file list is replaced by the one file, as the listing
\* fallback does, instead of being pushed to.
commitActiveFile_replace(files, fileKey, fileName) ==
  [active |-> fileKey,
   files |-> IF Find(files, fileKey) = <<>>
               THEN <<FigmaFile(fileKey, fileName, "now")>>
               ELSE files]

\* Mutant: the pointer is set and the file list is left as it is.
commitActiveFile_pointerOnly(files, fileKey, fileName) ==
  [active |-> fileKey, files |-> files]

\* Mutant: the file is pushed without looking for one of that key.
commitActiveFile_always(files, fileKey, fileName) ==
  [active |-> fileKey,
   files |-> Append(files, FigmaFile(fileKey, fileName, "now"))]

\* The success path of case "set_active_figma_file", once the file has been
\* fetched: the pointer is set and the file joins cache.files unless a file
\* of that key is there.
commitActiveFile(files, fileKey, fileName) ==
  [active |-> fileKey,
   files |-> IF Find(files, fileKey) = <<>>
               THEN Append(files, FigmaFile(fileKey, fileName, "now"))
               ELSE files]

\* Mutant: the pointer is written before the file is verified.
setActiveFigmaFile_eager(files, active, arg, resp) ==
  LET fileKey == String(arg) IN
  IF fileKey = ""
    THEN [active |-> active, files |-> files, fileKey |-> fileKey,
          raised |-> TRUE, error |-> "File key is required",
          result |-> <<>>, calls |-> <<>>]
  ELSE IF resp.ok
    THEN LET c == commitActiveFile(files, fileKey, resp.name)
         IN [active |-> c.active, files |-> c.files, fileKey |-> fileKey,
             raised |-> FALSE, error |-> "", result |-> <<resp.name>>,
             calls |-> <<Call("file", fileKey, "", TRUE, resp.name)>>]
  ELSE [active |-> fileKey, files |-> files, fileKey |-> fileKey,
        raised |-> TRUE, error |-> "not found or not accessible",
        result |-> <<>>, calls |-> <<Call("file", fileKey, "", FALSE, "")>>]

\* Case "set_active_figma_file" on the argument and the remote's answer: the
\* pointer and the file list after it, and what the handler reports.
setActiveFigmaFile(files, active, arg, resp) ==
  LET fileKey == String(arg) IN
  IF fileKey = ""
    THEN [active |-> active, files |-> files, fileKey |-> fileKey,
          raised |-> TRUE, error |-> "File key is required",
          result |-> <<>>, calls |-> <<>>]
  ELSE IF resp.ok
    THEN LET c == commitActiveFile(files, fileKey, resp.name)
         IN [active |-> c.active, files |-> c.files, fileKey |-> fileKey,
             raised |-> FALSE, error |-> "", result |-> <<resp.name>>,
             calls |-> <<Call("file", fileKey, "", TRUE, resp.name)>>]
  ELSE [active |-> active, files |-> files, fileKey |-> fileKey,
        raised |-> TRUE, error |-> "not found or not accessible",
        result |-> <<>>, calls |-> <<Call("file", fileKey, "", FALSE, "")>>]

\* The CallTool handler, case "set_active_figma_file".
SetActiveFigmaFile ==
  /\ \E arg \in FileKeyArgs :
     \E resp \in IF String(arg) = "" THEN {NoResponse}
                 ELSE NameResponses(String(arg)) :
       \E r \in {setActiveFigmaFile(cacheFiles, activeFileKey, arg, resp)} :
          /\ activeFileKey' = r.active
          /\ cacheFiles' = r.files
          /\ last' = [NoObs EXCEPT !.op = "set_active_figma_file",
                                   !.fileKey = r.fileKey, !.result = r.result,
                                   !.raised = r.raised, !.error = r.error,
                                   !.calls = r.calls]
          /\ lastSetKey' = IF r.raised THEN lastSetKey ELSE r.fileKey
  /\ UNCHANGED <<FIGMA_DEFAULT_FILE, cacheFileNodes, cacheNodeDetails,
                 listFetched, firstNodes, detailFetched, listRefetched,
                 nodesRefetched, detailRefetched>>

\* Stands for the answers to a fetchFigmaFiles() that is not called.
NoRemote == [list |-> [ok |-> FALSE, files |-> <<>>], direct |-> NoResponse]

\* The first part of case "extract_design_tokens": the file key the handler
\* settles on (<<>> when it gives up, with the error it reports), the file
\* list after it and the remote calls issued.
extractFileKey(files, active, dflt, fileUri, rem) ==
  IF fileUri # Missing /\ fileUri # ""
    THEN IF StartsWithFigma(fileUri)
           THEN IF FileUriMatch(fileUri) = <<>>
                  THEN [files |-> files, fileKey |-> <<>>, calls |-> <<>>,
                        error |-> "Invalid file URI format"]
                  ELSE [files |-> files, fileKey |-> FileUriMatch(fileUri),
                        calls |-> <<>>, error |-> ""]
           ELSE [files |-> files, fileKey |-> <<fileUri>>, calls |-> <<>>,
                 error |-> ""]
    ELSE LET a == getActiveFile(files, active, dflt, rem.list, rem.direct)
         IN IF a.result = <<>>
              THEN [files |-> a.files, fileKey |-> <<>>, calls |-> a.calls,
                    error |-> "No active Figma file"]
              ELSE [files |-> a.files, fileKey |-> <<a.result[1].key>>,
                    calls |-> a.calls, error |-> ""]

\* request.params.arguments.format of extract_design_tokens: absent, a
\* format the server knows and one it does not.
FormatArgs == {Missing, "css", "yaml"}

\* String(request.params.arguments?.format || "json")
FormatOf(arg) == IF arg = Missing \/ arg = "" THEN "json" ELSE arg

\* extractDesignTokens(format): the object returned.
extractDesignTokens(format) ==
  [colors |-> [primary |-> "#0066FF", secondary |-> "#FF6600",
               background |-> "#FFFFFF", text |-> "#333333"],
   typography |-> [heading |-> [fontFamily |-> "Inter, sans-serif",
                                fontSize |-> "24px", fontWeight |-> "600"],
                   body |-> [fontFamily |-> "Inter, sans-serif",
                             fontSize |-> "16px", fontWeight |-> "400"]],
   spacing |-> [small |-> "8px", medium |-> "16px", large |-> "24px"]]

\* Mutant: the text shown is made from the file as well.
formatDesignTokensResponse_named(format, designTokens, fileName) ==
  [fileName |-> fileName,
   language |-> IF format \in {"json", "css", "scss", "swift"} THEN format
                ELSE "",
   output |-> <<fileName, format>>]

\* formatDesignTokensResponse(format, designTokens, fileName): the file name
\* shown, the language of the code block and its text.  JSON.stringify of
\* the tokens stands as <<"stringify", tokens>>; the other formats are
\* literal texts of the source, none for a format it does not know.
formatDesignTokensResponse(format, designTokens, fileName) ==
  [fileName |-> fileName,
   language |-> IF format \in {"json", "css", "scss", "swift"} THEN format
                ELSE "",
   output |-> CASE format = "json" -> <<"stringify", designTokens>>
                [] format = "css" -> <<":root { --color-primary: #0066FF; ... }">>
                [] format = "scss" -> <<"$color-primary: #0066FF; ...">>
                [] format = "swift" -> <<"struct DesignTokens { ... }">>
                [] OTHER -> <<"">>]

\* The CallTool handler, case "extract_design_tokens".  The handler catches
\* every error and answers with a text; result is <<the file name shown>>
\* and payload <<the answer>>.
ExtractDesignTokens ==
  /\ \E fileUri \in FileUriArgs, formatArg \in FormatArgs :
     \E rem1 \in IF fileUri # Missing /\ fileUri # ""
                   THEN {NoRemote}
                   ELSE FilesRemotes(cacheFiles, activeFileKey,
                                     FIGMA_DEFAULT_FILE) :
       \E k \in {extractFileKey(cacheFiles, activeFileKey,
                                 FIGMA_DEFAULT_FILE, fileUri, rem1)} :
          IF k.fileKey = <<>>
            THEN /\ cacheFiles' = k.files
                 /\ last' = [NoObs EXCEPT !.op = "extract_design_tokens",
                                          !.format = FormatOf(formatArg),
                                          !.error = k.error, !.calls = k.calls]
                 /\ listFetched' = (listFetched \/ Succeeded(k.calls, "list"))
                 /\ listRefetched' =
                      (listRefetched \/ CalledAgain(k.calls, "list", listFetched))
            ELSE
              \E rem2 \in FilesRemotes(k.files, activeFileKey,
                                       FIGMA_DEFAULT_FILE) :
                \E fileKey \in {k.fileKey[1]} :
                \E f \in {fetchFigmaFiles(k.files, activeFileKey,
                                          FIGMA_DEFAULT_FILE, rem2.list,
                                          rem2.direct)} :
                \E file \in {Find(f.result, fileKey)} :
                   IF file # <<>>
                     THEN /\ cacheFiles' = f.files
                          /\ last' = [NoObs EXCEPT
                                        !.op = "extract_design_tokens",
                                        !.fileKey = fileKey,
                                        !.format = FormatOf(formatArg),
                                        !.result = <<file[1].name>>,
                                        !.payload =
                                          <<formatDesignTokensResponse(
                                              FormatOf(formatArg),
                                              extractDesignTokens(
                                                FormatOf(formatArg)),
                                              file[1].name)>>,
                                        !.calls = k.calls \o f.calls]
                          /\ listFetched' =
                               (listFetched \/ Succeeded(k.calls \o f.calls, "list"))
                          /\ listRefetched' =
                               (listRefetched \/
                                CalledAgain(k.calls \o f.calls, "list", listFetched))
                     ELSE
                       \E resp \in FileResponses(fileKey) :
                         LET calls == k.calls \o f.calls \o
                                      <<Call("file", fileKey, "", resp.ok, resp.name)>>
                         IN /\ cacheFiles' =
                                 IF resp.ok
                                   THEN Append(f.files,
                                               FigmaFile(fileKey, resp.name, "now"))
                                   ELSE f.files
                            /\ last' = [NoObs EXCEPT
                                          !.op = "extract_design_tokens",
                                          !.fileKey = fileKey,
                                          !.format = FormatOf(formatArg),
                                          !.document = resp.document,
                                          !.result = IF resp.ok
                                                       THEN <<resp.name>>
                                                       ELSE <<>>,
                                          !.payload =
                                            IF resp.ok
                                              THEN <<formatDesignTokensResponse(
                                                       FormatOf(formatArg),
                                                       extractDesignTokens(
                                                         FormatOf(formatArg)),
                                                       resp.name)>>
                                              ELSE <<>>,
                                          !.error = IF resp.ok THEN ""
                                                    ELSE "not found or not accessible",
                                          !.calls = calls]
                            /\ listFetched' =
                                 (listFetched \/ Succeeded(calls, "list"))
                            /\ listRefetched' =
                                 (listRefetched \/
                                  CalledAgain(calls, "list", listFetched))
  /\ UNCHANGED <<FIGMA_DEFAULT_FILE, activeFileKey, cacheFileNodes,
                 cacheNodeDetails, firstNodes, detailFetched, lastSetKey,
                 nodesRefetched, detailRefetched>>

\* The answers the remote may give to the call one fetchFileNodes(fileKey)
\* issues: none when the cache answers.
NodesRemotes(entry, fileKey) ==
  IF entry # <<>> THEN {NoResponse} ELSE DocResponses(fileKey)

\* A call of fetchFileNodes(fileKey, maxNodes, maxDepth) with the bounds the
\* caller passes.
FetchFileNodes ==
  /\ \E fileKey \in FileKeys, maxNodes \in 1..MaxNodesArg,
        maxDepth \in 2..MaxDepthArg :
       \E resp \in NodesRemotes(cacheFileNodes[fileKey], fileKey) :
         \E r \in {fetchFileNodes(cacheFileNodes[fileKey], fileKey, maxNodes,
                                 maxDepth, resp)} :
            /\ cacheFileNodes' = [cacheFileNodes EXCEPT ![fileKey] = r.entry]
            /\ last' = [NoObs EXCEPT !.op = "fetchFileNodes",
                                     !.fileKey = fileKey,
                                     !.maxNodes = maxNodes,
                                     !.maxDepth = maxDepth,
                                     !.result = r.result, !.calls = r.calls,
                                     !.document = IF Succeeded(r.calls, "file")
                                                    THEN resp.document ELSE ""]
            /\ firstNodes' =
                 IF firstNodes[fileKey] = <<>> /\ Succeeded(r.calls, "file")
                   THEN [firstNodes EXCEPT ![fileKey] = <<r.result>>]
                   ELSE firstNodes
            /\ nodesRefetched' =
                 IF CalledAgain(r.calls, "file", firstNodes[fileKey] # <<>>)
                   THEN nodesRefetched \cup {fileKey} ELSE nodesRefetched
  /\ UNCHANGED <<FIGMA_DEFAULT_FILE, activeFileKey, cacheFiles,
                 cacheNodeDetails, listFetched, detailFetched, lastSetKey,
                 listRefetched, detailRefetched>>

\* A call of fetchFileNodes(fileKey, maxNodes, maxDepth) that finds nothing
\* cached and is answered with the malformed document.
FetchFileNodesMalformed ==
  /\ \E fileKey \in FileKeys,
        maxNodes \in (1..MaxNodesArg) \cup {DefaultMaxNodes},
        maxDepth \in 2..MaxDepthArg :
       /\ cacheFileNodes[fileKey] = <<>>
       /\ \E r \in {fetchFileNodes(cacheFileNodes[fileKey], fileKey, maxNodes,
                                   maxDepth,
                                   [ok |-> TRUE, name |-> "Kit",
                                    document |-> "DocBroken"])} :
            /\ cacheFileNodes' = [cacheFileNodes EXCEPT ![fileKey] = r.entry]
            /\ last' = [NoObs EXCEPT !.op = "fetchFileNodes",
                                     !.fileKey = fileKey,
                                     !.maxNodes = maxNodes,
                                     !.maxDepth = maxDepth,
                                     !.result = r.result, !.calls = r.calls,
                                     !.document = "DocBroken"]
            /\ firstNodes' =
                 IF firstNodes[fileKey] = <<>> /\ r.entry # <<>>
                   THEN [firstNodes EXCEPT ![fileKey] = <<r.result>>]
                   ELSE firstNodes
  /\ UNCHANGED <<FIGMA_DEFAULT_FILE, activeFileKey, cacheFiles,
                 cacheNodeDetails, listFetched, detailFetched, lastSetKey,
                 listRefetched, detailRefetched, nodesRefetched>>

\* A call of fetchFileNodes(fileKey) with the default bounds, as every call
\* site of the handlers makes it; the key may be any string of a request.
FetchFileNodesDefault ==
  /\ \E fileKey \in AllKeys :
       \E resp \in NodesRemotes(cacheFileNodes[fileKey], fileKey) :
         \E r \in {fetchFileNodes(cacheFileNodes[fileKey], fileKey,
                                 DefaultMaxNodes, DefaultMaxDepth, resp)} :
            /\ cacheFileNodes' = [cacheFileNodes EXCEPT ![fileKey] = r.entry]
            /\ last' = [NoObs EXCEPT !.op = "fetchFileNodes",
                                     !.fileKey = fileKey,
                                     !.maxNodes = DefaultMaxNodes,
                                     !.maxDepth = DefaultMaxDepth,
                                     !.result = r.result, !.calls = r.calls,
                                     !.document = IF Succeeded(r.calls, "file")
                                                    THEN resp.document ELSE ""]
            /\ firstNodes' =
                 IF firstNodes[fileKey] = <<>> /\ Succeeded(r.calls, "file")
                   THEN [firstNodes EXCEPT ![fileKey] = <<r.result>>]
                   ELSE firstNodes
            /\ nodesRefetched' =
                 IF CalledAgain(r.calls, "file", firstNodes[fileKey] # <<>>)
                   THEN nodesRefetched \cup {fileKey} ELSE nodesRefetched
  /\ UNCHANGED <<FIGMA_DEFAULT_FILE, activeFileKey, cacheFiles,
                 cacheNodeDetails, listFetched, detailFetched, lastSetKey,
                 listRefetched, detailRefetched>>

\* A call of fetchNodeDetails(fileKey, nodeId) on its own.
FetchNodeDetails ==
  /\ \E fileKey \in FileKeys \cup {OddKey}, nodeId \in NodeIds :
       LET key == CacheKey(fileKey, nodeId) IN
       \E resp \in IF Truthy(cacheNodeDetails[key]) THEN {NoNodes}
                   ELSE NodesResponses(fileKey) :
         \E r \in {fetchNodeDetails(cacheNodeDetails[key], fileKey, nodeId, resp)} :
            /\ cacheNodeDetails' = [cacheNodeDetails EXCEPT ![key] = r.entry]
            /\ last' = [NoObs EXCEPT !.op = "fetchNodeDetails",
                                     !.fileKey = fileKey, !.nodeId = nodeId,
                                     !.result = <<r.result>>, !.calls = r.calls]
            /\ detailFetched' =
                 IF Succeeded(r.calls, "nodes")
                   THEN detailFetched \cup {key} ELSE detailFetched
            /\ detailRefetched' =
                 IF CalledAgain(r.calls, "nodes", key \in detailFetched)
                   THEN detailRefetched \cup {key} ELSE detailRefetched
  /\ UNCHANGED <<FIGMA_DEFAULT_FILE, activeFileKey, cacheFiles,
                 cacheFileNodes, listFetched, firstNodes, lastSetKey,
                 listRefetched, nodesRefetched>>

\* A call of fetchTopLevelComponents(fileKey, limit); maxResults records the
\* limit.
FetchTopLevelComponents ==
  /\ \E fileKey \in FileKeys, limit \in (1..MaxLimitArg) \cup {DefaultLimit} :
       \E resp \in DocResponses(fileKey) :
         \E r \in {fetchTopLevelComponents(fileKey, limit, resp)} :
            last' = [NoObs EXCEPT !.op = "fetchTopLevelComponents",
                                  !.fileKey = fileKey, !.maxResults = limit,
                                  !.result = r.result, !.raised = r.raised,
                                  !.error = r.error, !.calls = r.calls,
                                  !.document = IF resp.ok THEN resp.document
                                               ELSE ""]
  /\ UNCHANGED <<FIGMA_DEFAULT_FILE, activeFileKey, cacheFiles,
                 cacheFileNodes, cacheNodeDetails, listFetched, firstNodes,
                 detailFetched, lastSetKey, listRefetched, nodesRefetched,
                 detailRefetched>>

\* request.params.arguments.name of a search: plain words, the empty string,
\* and words with characters that mean something to a regular expression.
Queries == {"nav", "NAV", "", "oo", "n.v", "av("}

\* A call of findNodesByName(fileKey, name, maxResults); the handler's call
\* site passes the default maxResults.
FindNodesByName ==
  /\ \E fileKey \in FileKeys, name \in Queries,
        maxResults \in (1..MaxResultsArg) \cup {DefaultMaxResults} :
       \E resp \in SearchResponses(fileKey) :
         \E r \in {findNodesByName(fileKey, name, maxResults, resp)} :
            last' = [NoObs EXCEPT !.op = "findNodesByName",
                                  !.fileKey = fileKey, !.name = name,
                                  !.maxResults = maxResults,
                                  !.result = r.result, !.raised = r.raised,
                                  !.error = r.error, !.calls = r.calls,
                                  !.document = IF resp.ok THEN resp.document
                                               ELSE ""]
  /\ UNCHANGED <<FIGMA_DEFAULT_FILE, activeFileKey, cacheFiles,
                 cacheFileNodes, cacheNodeDetails, listFetched, firstNodes,
                 detailFetched, lastSetKey, listRefetched, nodesRefetched,
                 detailRefetched>>

\* request.params.arguments.name of find_component_by_name.
NameArgs == {Missing, "", "nav", "av("}

\* The first part of case "find_component_by_name": the file the search runs
\* on (<<>> when the handler answers with an error text instead), the file
\* list after it and the remote calls issued.  resp answers the handler's own
\* GET of an explicit file key, rem the calls of getActiveFile().
targetFile(files, active, dflt, fileKey, rem, resp) ==
  IF fileKey # Missing /\ fileKey # ""
    THEN IF resp.ok
           THEN [files |-> files, fileKey |-> <<fileKey>>,
                 fileName |-> resp.name, error |-> "",
                 calls |-> <<Call("file", fileKey, "", TRUE, resp.name)>>]
           ELSE [files |-> files, fileKey |-> <<>>, fileName |-> "",
                 error |-> "not found or not accessible",
                 calls |-> <<Call("file", fileKey, "", FALSE, "")>>]
    ELSE LET a == getActiveFile(files, active, dflt, rem.list, rem.direct)
         IN IF a.result = <<>>
              THEN [files |-> a.files, fileKey |-> <<>>, fileName |-> "",
                    error |-> "No active Figma file", calls |-> a.calls]
              ELSE [files |-> a.files, fileKey |-> <<a.result[1].key>>,
                    fileName |-> a.result[1].name, error |-> "",
                    calls |-> a.calls]

\* The CallTool handler, case "find_component_by_name".  An empty name is
\* thrown out of the handler; every later error is answered as a text.
FindComponentByName ==
  /\ \E nameArg \in NameArgs, keyArg \in FileKeyArgs :
       LET name == String(nameArg)
           explicit == keyArg # Missing /\ keyArg # ""
       IN IF name = ""
            THEN /\ last' = [NoObs EXCEPT !.op = "find_component_by_name",
                                          !.raised = TRUE,
                                          !.error = "Component name is required"]
                 /\ UNCHANGED <<cacheFiles, listFetched, listRefetched>>
            ELSE
              \E rem \in IF explicit THEN {NoRemote}
                         ELSE FilesRemotes(cacheFiles, activeFileKey,
                                           FIGMA_DEFAULT_FILE),
                 first \in IF explicit THEN NameResponses(keyArg)
                           ELSE {NoResponse} :
                \E t \in {targetFile(cacheFiles, activeFileKey,
                                     FIGMA_DEFAULT_FILE, keyArg, rem, first)} :
                  /\ cacheFiles' = t.files
                  /\ IF t.fileKey = <<>>
                       THEN /\ last' = [NoObs EXCEPT
                                          !.op = "find_component_by_name",
                                          !.name = name, !.error = t.error,
                                          !.calls = t.calls]
                            /\ listFetched' =
                                 (listFetched \/ Succeeded(t.calls, "list"))
                            /\ listRefetched' =
                                 (listRefetched \/
                                  CalledAgain(t.calls, "list", listFetched))
                       ELSE
                         \E resp \in SearchResponses(t.fileKey[1]) :
                         \E r \in {findNodesByName(t.fileKey[1], name,
                                                   DefaultMaxResults, resp)} :
                           /\ last' = [NoObs EXCEPT
                                         !.op = "find_component_by_name",
                                         !.fileKey = t.fileKey[1],
                                         !.name = name,
                                         !.maxResults = DefaultMaxResults,
                                         !.result = r.result,
                                         !.error = IF r.raised
                                                     THEN "Error finding component"
                                                     ELSE "",
                                         !.calls = t.calls \o r.calls,
                                         !.document = IF resp.ok
                                                        THEN resp.document
                                                        ELSE ""]
                           /\ listFetched' =
                                (listFetched \/ Succeeded(t.calls, "list"))
                           /\ listRefetched' =
                                (listRefetched \/
                                 CalledAgain(t.calls, "list", listFetched))
  /\ UNCHANGED <<FIGMA_DEFAULT_FILE, activeFileKey, cacheFileNodes,
                 cacheNodeDetails, firstNodes, detailFetched, lastSetKey,
                 nodesRefetched, detailRefetched>>

\* ---------------------------------------------------------------- resources
\* `figma://file/${file.key}`
FileUri(key) ==
  Chars("figma:") \o <<"/", "/">> \o Chars("file") \o <<"/">> \o Chars(key)

\* `figma://node/${file.key}/${node.id}`
NodeUri(key, id) ==
  Chars("figma:") \o <<"/", "/">> \o Chars("node") \o <<"/">> \o Chars(key)
    \o <<"/">> \o Chars(id)

\* str.indexOf(c) + 1: the position of the first c, 0 when there is none.
IndexOfChar(str, c) ==
  IF \E i \in 1..Len(str) : str[i] = c
    THEN CHOOSE i \in 1..Len(str) :
           str[i] = c /\ \A j \in 1..(i - 1) : str[j] # c
    ELSE 0

\* str.slice(n)
Drop(str, n) == SubSeq(str, n + 1, Len(str))

RECURSIVE Split(_, _)
\* str.split(sep)
Split(str, sep) ==
  LET i == IndexOfChar(str, sep)
  IN IF i = 0 THEN <<str>>
     ELSE <<SubSeq(str, 1, i - 1)>> \o Split(Drop(str, i), sep)

\* new URL(uri) for a scheme that is not one of the web's own: the string
\* up to the first colon is the scheme (a letter first, no slash in it, or
\* the constructor throws); after "//" comes the host, up to the next slash,
\* and the pathname is what follows the host; without "//" there is no host
\* and all that follows the colon is the pathname.
URL(uri) ==
  LET colon == IndexOfChar(uri, ":")
      scheme == SubSeq(uri, 1, colon - 1)
      rest == Drop(uri, colon)
  IN IF \/ colon <= 1
        \/ \E i \in 1..Len(scheme) : scheme[i] = "/"
        \/ \A i \in 1..26 : LowerCase[i] # Fold(uri[1])
       THEN [throws |-> TRUE, host |-> <<>>, pathname |-> <<>>]
     ELSE IF Len(rest) >= 2 /\ rest[1] = "/" /\ rest[2] = "/"
       THEN LET after == Drop(rest, 2)
                slash == IndexOfChar(after, "/")
            IN [throws |-> FALSE,
                host |-> IF slash = 0 THEN after
                         ELSE SubSeq(after, 1, slash - 1),
                pathname |-> IF slash = 0 THEN <<>>
                             ELSE Drop(after, slash - 1)]
     ELSE [throws |-> FALSE, host |-> <<>>, pathname |-> rest]

\* url.pathname.replace(/^\//, '').split('/')
PathParts(url) ==
  Split(IF url.pathname # <<>> /\ url.pathname[1] = "/"
          THEN Drop(url.pathname, 1) ELSE url.pathname,
        "/")

\* The strings a path part is used as a key or a node id for.
KnownStrings == AllKeys \cup NodeIds

\* A path part as the string it is; a part that is not there (undefined)
\* reads "undefined" once it is put into a URL or a cache key.
PartString(parts, i) ==
  IF i <= Len(parts) /\ \E k \in KnownStrings : Chars(k) = parts[i]
    THEN CHOOSE k \in KnownStrings : Chars(k) = parts[i]
    ELSE UndefinedStr

\* What the ReadResource handler makes of a URI: the branch it takes and the
\* file key and node id it reads.
readResourceTarget(uri) ==
  LET url == URL(uri)
      pathParts == PathParts(url)
  IN IF url.throws
       THEN [kind |-> "throws", fileKey |-> "", nodeId |-> "",
             error |-> "Invalid URL"]
     ELSE IF pathParts[1] = Chars("file")
       THEN [kind |-> "file", fileKey |-> PartString(pathParts, 2),
             nodeId |-> "", error |-> ""]
     ELSE IF pathParts[1] = Chars("node")
       THEN [kind |-> "node", fileKey |-> PartString(pathParts, 2),
             nodeId |-> PartString(pathParts, 3), error |-> ""]
     ELSE [kind |-> "invalid", fileKey |-> "", nodeId |-> "",
           error |-> "Invalid URI format"]

\* One entry of the resources list-resources answers with.
Resource(uri, kind, fileKey, nodeId, isActive) ==
  [uri |-> uri, kind |-> kind, fileKey |-> fileKey, nodeId |-> nodeId,
   isActive |-> isActive]

RECURSIVE listResources(_, _, _, _)
\* for (const file of files) { resources.push(file resource); if (isActive)
\*   push a node resource per node of fetchFileNodes(file.key) }, from the
\* i-th file on; nodes is the list fetchFileNodes answers for the active key.
listResources(files, i, activeFile, nodes) ==
  IF i > Len(files) THEN <<>>
  ELSE LET file == files[i]
           isActive == activeFile # <<>> /\ file.key = activeFile[1].key
       IN <<Resource(FileUri(file.key), "file", file.key, "", isActive)>>
          \o (IF isActive
                THEN [j \in 1..Len(nodes) |->
                        Resource(NodeUri(file.key, nodes[j].id), "node",
                                 file.key, nodes[j].id, FALSE)]
                ELSE <<>>)
          \o listResources(files, i + 1, activeFile, nodes)

\* The ListResources handler: fetchFigmaFiles(), then getActiveFile(), then
\* fetchFileNodes of the active file when the list first obtained holds it.
\* (The keys of a file list are distinct, so the node list is fetched once.)
ListResources ==
  /\ \E rem1 \in FilesRemotes(cacheFiles, activeFileKey, FIGMA_DEFAULT_FILE) :
       LET f == fetchFigmaFiles(cacheFiles, activeFileKey, FIGMA_DEFAULT_FILE,
                                rem1.list, rem1.direct)
       IN \E rem2 \in FilesRemotes(f.files, activeFileKey, FIGMA_DEFAULT_FILE) :
            LET a == getActiveFile(f.files, activeFileKey, FIGMA_DEFAULT_FILE,
                                   rem2.list, rem2.direct)
                files == f.result
                hasActive == a.result # <<>> /\ Find(files, a.result[1].key) # <<>>
                key == IF hasActive THEN a.result[1].key ELSE ""
            IN \E resp \in IF hasActive
                              THEN NodesRemotes(cacheFileNodes[key], key)
                              ELSE {NoResponse} :
                 LET n == IF hasActive
                            THEN fetchFileNodes(cacheFileNodes[key], key,
                                                DefaultMaxNodes, DefaultMaxDepth,
                                                resp)
                            ELSE [entry |-> <<>>, result |-> <<>>, calls |-> <<>>]
                     resources == listResources(files, 1, a.result, n.result)
                     fileCalls == f.calls \o a.calls
                 IN /\ cacheFiles' = a.files
                    /\ cacheFileNodes' =
                         IF hasActive
                           THEN [cacheFileNodes EXCEPT ![key] = n.entry]
                           ELSE cacheFileNodes
                    /\ last' = [NoObs EXCEPT !.op = "list_resources",
                                             !.result = resources,
                                             !.files = files,
                                             !.fileKey = key,
                                             !.calls = fileCalls \o n.calls]
                    /\ listed' = listed \cup
                                   {resources[i].uri : i \in 1..Len(resources)}
                    /\ listFetched' = (listFetched \/ Succeeded(fileCalls, "list"))
                    /\ listRefetched' =
                         (listRefetched \/
                          CalledAgain(fileCalls, "list", listFetched))
                    /\ firstNodes' =
                         IF hasActive /\ firstNodes[key] = <<>>
                            /\ Succeeded(n.calls, "file")
                           THEN [firstNodes EXCEPT ![key] = <<n.result>>]
                           ELSE firstNodes
                    /\ nodesRefetched' =
                         IF hasActive /\
                            CalledAgain(n.calls, "file", firstNodes[key] # <<>>)
                           THEN nodesRefetched \cup {key} ELSE nodesRefetched
  /\ UNCHANGED <<FIGMA_DEFAULT_FILE, activeFileKey, cacheNodeDetails,
                 detailFetched, lastSetKey, detailRefetched>>

\* URIs written by hand rather than copied from a listing: with an empty
\* host, and a bare key.
HandUris ==
  { Chars("figma:") \o <<"/", "/", "/">> \o Chars("file") \o <<"/">> \o Chars("A"),
    Chars("figma:") \o <<"/", "/", "/">> \o Chars("node") \o <<"/">> \o Chars("A")
      \o <<"/">> \o Chars("1:2"),
    Chars("A") }

\* The ReadResource handler, on a URI a listing has emitted or a hand-written
\* one.
ReadResource ==
  /\ \E uri \in listed \cup HandUris :
       LET t == readResourceTarget(uri) IN
       IF t.kind = "file"
         THEN \E resp \in NodesRemotes(cacheFileNodes[t.fileKey], t.fileKey) :
                \E r \in {fetchFileNodes(cacheFileNodes[t.fileKey], t.fileKey,
                                        DefaultMaxNodes, DefaultMaxDepth, resp)} :
                   /\ cacheFileNodes' =
                        [cacheFileNodes EXCEPT ![t.fileKey] = r.entry]
                   /\ last' = [NoObs EXCEPT
                                 !.op = "read_resource", !.uri = uri,
                                 !.fileKey = t.fileKey,
                                 !.result = <<[fileKey |-> t.fileKey,
                                               nodes |-> r.result]>>,
                                 !.calls = r.calls]
                   /\ firstNodes' =
                        IF firstNodes[t.fileKey] = <<>> /\ Succeeded(r.calls, "file")
                          THEN [firstNodes EXCEPT ![t.fileKey] = <<r.result>>]
                          ELSE firstNodes
                   /\ nodesRefetched' =
                        IF CalledAgain(r.calls, "file", firstNodes[t.fileKey] # <<>>)
                          THEN nodesRefetched \cup {t.fileKey}
                          ELSE nodesRefetched
                   /\ UNCHANGED <<cacheNodeDetails, detailFetched,
                                  detailRefetched>>
       ELSE IF t.kind = "node"
         THEN LET key == CacheKey(t.fileKey, t.nodeId) IN
              \E resp \in IF Truthy(cacheNodeDetails[key]) THEN {NoNodes}
                          ELSE NodesResponses(t.fileKey) :
                \E r \in {fetchNodeDetails(cacheNodeDetails[key], t.fileKey,
                                          t.nodeId, resp)} :
                   /\ cacheNodeDetails' =
                        [cacheNodeDetails EXCEPT ![key] = r.entry]
                   /\ last' = [NoObs EXCEPT
                                 !.op = "read_resource", !.uri = uri,
                                 !.fileKey = t.fileKey, !.nodeId = t.nodeId,
                                 !.result = <<r.result>>, !.calls = r.calls]
                   /\ detailFetched' =
                        IF Succeeded(r.calls, "nodes")
                          THEN detailFetched \cup {key} ELSE detailFetched
                   /\ detailRefetched' =
                        IF CalledAgain(r.calls, "nodes", key \in detailFetched)
                          THEN detailRefetched \cup {key} ELSE detailRefetched
                   /\ UNCHANGED <<cacheFileNodes, firstNodes, nodesRefetched>>
       ELSE /\ last' = [NoObs EXCEPT !.op = "read_resource", !.uri = uri,
                                     !.raised = TRUE, !.error = t.error]
            /\ UNCHANGED <<cacheFileNodes, cacheNodeDetails, firstNodes,
                           nodesRefetched, detailFetched, detailRefetched>>
  /\ UNCHANGED <<FIGMA_DEFAULT_FILE, activeFileKey, cacheFiles, listFetched,
                 lastSetKey, listRefetched, listed>>

\* ---------------------------------------------------------- node addresses
\* The three shapes of request.params.arguments.nodeUri, as the strings they
\* are: figma://node/{fileKey}/{nodeId}, {fileKey}/{nodeId} and {nodeId}.
Qualified(fileKey, nodeId) ==
  Chars("figma:") \o <<"/", "/">> \o Chars("node") \o <<"/">> \o Chars(fileKey)
    \o <<"/">> \o Chars(nodeId)

Short(fileKey, nodeId) == Chars(fileKey) \o <<"/">> \o Chars(nodeId)

Bare(nodeId) == Chars(nodeId)

\* The parts the arguments are put together from: a file key and node id, a
\* node id that holds a slash, and an empty file key or node id.
AddressParts ==
  {<<"A", "1:2">>, <<"A", "1:2/3">>, <<"A", "">>, <<"", "1:2">>}

\* The nodeUri arguments tried: the qualified and the short form of each pair
\* of parts, a bare node id, a figma:// string with no node id part, the
\* empty string, and no argument at all.
NodeUriArgs ==
  {Qualified(a[1], a[2]) : a \in AddressParts} \cup
  {Short(a[1], a[2]) : a \in AddressParts} \cup
  {Bare(n) : n \in {"1:2", ""}} \cup
  {Chars("figma:") \o <<"/", "/">> \o Chars("node") \o <<"/">> \o Chars("A"),
   <<Missing>>}

\* String(request.params.arguments?.nodeUri)
StringOfArg(arg) == IF arg = <<Missing>> THEN Chars(UndefinedStr) ELSE arg

\* str.startsWith(prefix)
StartsWith(str, prefix) ==
  Len(str) >= Len(prefix) /\ SubSeq(str, 1, Len(prefix)) = prefix

\* Mutant: the node id group is ([^\/]+), a single path segment.
figmaPattern_segment(nodeUri) ==
  LET prefix == Chars("figma:") \o <<"/", "/">> \o Chars("node") \o <<"/">>
      rest == Drop(nodeUri, Len(prefix))
      slash == IndexOfChar(rest, "/")
  IN IF /\ StartsWith(nodeUri, prefix) /\ slash > 1 /\ slash < Len(rest)
        /\ IndexOfChar(Drop(rest, slash), "/") = 0
       THEN <<SubSeq(rest, 1, slash - 1), Drop(rest, slash)>>
       ELSE <<>>

\* nodeUri.match(/^figma:\/\/node\/([^\/]+)\/(.+)$/): <<>> when there is no
\* match, else <<matches[1], matches[2]>>.  The first group ends at the first
\* slash after the prefix and the second is all the rest; each needs a
\* character.
figmaPattern(nodeUri) ==
  LET prefix == Chars("figma:") \o <<"/", "/">> \o Chars("node") \o <<"/">>
      rest == Drop(nodeUri, Len(prefix))
      slash == IndexOfChar(rest, "/")
  IN IF StartsWith(nodeUri, prefix) /\ slash > 1 /\ slash < Len(rest)
       THEN <<SubSeq(rest, 1, slash - 1), Drop(rest, slash)>>
       ELSE <<>>

\* nodeUri.split('/', 2): the first two of the pieces between slashes.
SplitLimit2(nodeUri) ==
  LET parts == Split(nodeUri, "/")
  IN SubSeq(parts, 1, IF Len(parts) < 2 THEN Len(parts) ELSE 2)

\* The strings a parsed file key or node id can be.
ParsedStrings == AllKeys \cup ParsedIds \cup {""}

\* The string with the given characters.
StringOf(chars) == CHOOSE x \in ParsedStrings : Chars(x) = chars

\* The try block of case "generate_component" and of case
\* "export_component_image" up to the parsed address: the file key and node
\* id (both "" when the address is not resolved, with the error thrown), the
\* file list after it and the remote calls issued.  rem answers the
\* getActiveFile() of a bare node id.
parseNodeUri(files, active, dflt, nodeUri, rem) ==
  LET unresolved(error, fs, calls, list) ==
        [fileKey |-> "", nodeId |-> "", error |-> error, files |-> fs,
         calls |-> calls, list |-> list]
      checked(fileKey, nodeId, fs, calls, list) ==
        IF fileKey = <<>> \/ nodeId = <<>>
          THEN unresolved("Could not extract fileKey and nodeId from URI",
                          fs, calls, list)
          ELSE [fileKey |-> StringOf(fileKey), nodeId |-> StringOf(nodeId),
                error |-> "", files |-> fs, calls |-> calls, list |-> list]
  IN IF StartsWith(nodeUri, Chars("figma:") \o <<"/", "/">>)
       THEN LET matches == figmaPattern(nodeUri)
            IN IF matches = <<>>
                 THEN unresolved("Invalid node URI format", files, <<>>, <<>>)
                 ELSE checked(matches[1], matches[2], files, <<>>, <<>>)
     ELSE IF IndexOfChar(nodeUri, "/") > 0
       THEN LET parts == SplitLimit2(nodeUri)
            IN IF Len(parts) = 2
                 THEN checked(parts[1], parts[2], files, <<>>, <<>>)
                 ELSE unresolved("Invalid node URI format", files, <<>>, <<>>)
     ELSE LET a == getActiveFile(files, active, dflt, rem.list, rem.direct)
          IN IF a.result = <<>>
               THEN unresolved("No active Figma file", a.files, a.calls, a.list)
               ELSE checked(Chars(a.result[1].key), nodeUri, a.files, a.calls,
                            a.list)

\* The lines every error text of the two tools ends with: the accepted
\* shapes and an example of each.
ValidUriFormats ==
  [shapes |-> <<"figma://node/{fileKey}/{nodeId}", "{fileKey}/{nodeId}",
                "{nodeId} (uses active file)">>,
   examples |-> <<"figma://node/KqD1Flt6R0C7aC35bBp7gG/1:2",
                  "KqD1Flt6R0C7aC35bBp7gG/1:2", "1:2 (with active file set)">>]

\* The response of the catch block of the two tools.
ErrorText(message) == [ok |-> FALSE, message |-> message, help |-> ValidUriFormats]

\* Whether parseNodeUri asks for the active file.
IsBare(nodeUri) ==
  /\ ~StartsWith(nodeUri, Chars("figma:") \o <<"/", "/">>)
  /\ IndexOfChar(nodeUri, "/") = 0

\* Outcome of figmaApi.get(`/images/${fileKey}?ids=${nodeId}&...`): image is
\* response.data.images[nodeId], "" when there is none.
ImagesResponses(fileKey) ==
  {[ok |-> FALSE, image |-> ""]} \cup
  (IF fileKey \in FileKeys
     THEN {[ok |-> TRUE, image |-> i] : i \in {"", "url"}}
     ELSE {})

\* Mutant: the detail is not looked at, every node counts as verified.
HasDocument_any(detail) == TRUE

\* nodeDetails && nodeDetails.document
HasDocument(detail) == detail = "d1"

\* The CallTool handler, case "generate_component".
GenerateComponent ==
  /\ \E arg \in NodeUriArgs :
       LET nodeUri == StringOfArg(arg) IN
       IF nodeUri = <<>>
         THEN /\ last' = [NoObs EXCEPT !.op = "generate_component",
                                       !.uri = nodeUri, !.raised = TRUE,
                                       !.error = "Node URI is required"]
              /\ UNCHANGED <<cacheFiles, cacheNodeDetails, listFetched,
                             listRefetched, detailFetched, detailRefetched>>
         ELSE
           \E rem \in IF IsBare(nodeUri)
                        THEN FilesRemotes(cacheFiles, activeFileKey,
                                          FIGMA_DEFAULT_FILE)
                        ELSE {NoRemote} :
             \E p \in {parseNodeUri(cacheFiles, activeFileKey,
                                     FIGMA_DEFAULT_FILE, nodeUri, rem)} :
             \E key \in {CacheKey(p.fileKey, p.nodeId)} :
                /\ cacheFiles' = p.files
                /\ listFetched' = (listFetched \/ Succeeded(p.calls, "list"))
                /\ listRefetched' =
                     (listRefetched \/ CalledAgain(p.calls, "list", listFetched))
                /\ IF p.fileKey = ""
                     THEN /\ last' = [NoObs EXCEPT
                                        !.op = "generate_component",
                                        !.uri = nodeUri, !.error = p.error,
                                        !.result = <<ErrorText(p.error)>>,
                                        !.calls = p.calls, !.files = p.list]
                          /\ UNCHANGED <<cacheNodeDetails, detailFetched,
                                         detailRefetched>>
                     ELSE
                       \E resp \in IF Truthy(cacheNodeDetails[key])
                                     THEN {NoNodes}
                                     ELSE NodesResponses(p.fileKey) :
                         \E r \in {fetchNodeDetails(cacheNodeDetails[key],
                                                     p.fileKey, p.nodeId,
                                                     resp)} :
                            /\ cacheNodeDetails' =
                                 [cacheNodeDetails EXCEPT ![key] = r.entry]
                            /\ detailFetched' =
                                 IF Succeeded(r.calls, "nodes")
                                   THEN detailFetched \cup {key}
                                   ELSE detailFetched
                            /\ detailRefetched' =
                                 IF CalledAgain(r.calls, "nodes",
                                                key \in detailFetched)
                                   THEN detailRefetched \cup {key}
                                   ELSE detailRefetched
                            /\ last' = [NoObs EXCEPT
                                          !.op = "generate_component",
                                          !.uri = nodeUri,
                                          !.fileKey = p.fileKey,
                                          !.nodeId = p.nodeId,
                                          !.error = IF HasDocument(r.result)
                                                      THEN "" ELSE "Node not found",
                                          !.result =
                                            IF HasDocument(r.result)
                                              THEN <<[ok |-> TRUE,
                                                      message |-> "Generated",
                                                      help |-> <<>>]>>
                                              ELSE <<ErrorText("Node not found")>>,
                                          !.calls = p.calls \o r.calls,
                                          !.files = p.list]
  /\ UNCHANGED <<FIGMA_DEFAULT_FILE, activeFileKey, cacheFileNodes,
                 firstNodes, lastSetKey, nodesRefetched>>

\* The CallTool handler, case "export_component_image".  The second
\* fetchNodeDetails, after the image call, finds the detail the first one
\* cached.
\* The scale factors the tool's schema describes: "(1-4)".
MinScale == 1
MaxScale == 4

\* request.params.arguments?.scale: absent, or a number (zero, a factor the
\* tool's schema allows, a factor above it, a negative one).
ScaleArgs == {<<>>, <<0>>, <<2>>, <<5>>, <<-1>>}

\* Number(request.params.arguments?.scale || 1): an absent scale and 0 are
\* falsy and give 1; any other number is taken as it is.
ScaleOf(arg) == IF arg = <<>> \/ arg[1] = 0 THEN 1 ELSE arg[1]

ExportComponentImage ==
  /\ \E arg \in NodeUriArgs, scaleArg \in ScaleArgs :
       LET nodeUri == StringOfArg(arg)
           scale == ScaleOf(scaleArg) IN
       IF nodeUri = <<>>
         THEN /\ last' = [NoObs EXCEPT !.op = "export_component_image",
                                       !.uri = nodeUri, !.raised = TRUE,
                                       !.error = "Node URI is required"]
              /\ UNCHANGED <<cacheFiles, cacheNodeDetails, listFetched,
                             listRefetched, detailFetched, detailRefetched>>
         ELSE
           \E rem \in IF IsBare(nodeUri)
                        THEN FilesRemotes(cacheFiles, activeFileKey,
                                          FIGMA_DEFAULT_FILE)
                        ELSE {NoRemote} :
             \E p \in {parseNodeUri(cacheFiles, activeFileKey,
                                     FIGMA_DEFAULT_FILE, nodeUri, rem)} :
             \E key \in {CacheKey(p.fileKey, p.nodeId)} :
                /\ cacheFiles' = p.files
                /\ listFetched' = (listFetched \/ Succeeded(p.calls, "list"))
                /\ listRefetched' =
                     (listRefetched \/ CalledAgain(p.calls, "list", listFetched))
                /\ IF p.fileKey = ""
                     THEN /\ last' = [NoObs EXCEPT
                                        !.op = "export_component_image",
                                        !.uri = nodeUri, !.error = p.error,
                                        !.result = <<ErrorText(p.error)>>,
                                        !.calls = p.calls, !.files = p.list]
                          /\ UNCHANGED <<cacheNodeDetails, detailFetched,
                                         detailRefetched>>
                     ELSE
                       \E resp \in IF Truthy(cacheNodeDetails[key])
                                     THEN {NoNodes}
                                     ELSE NodesResponses(p.fileKey) :
                       \E img \in IF HasDocument(
                                       fetchNodeDetails(cacheNodeDetails[key],
                                                        p.fileKey, p.nodeId,
                                                        resp).result)
                                    THEN ImagesResponses(p.fileKey)
                                    ELSE {[ok |-> FALSE, image |-> ""]} :
                         LET r == fetchNodeDetails(cacheNodeDetails[key],
                                                   p.fileKey, p.nodeId, resp)
                             verified == HasDocument(r.result)
                             imageCall == IF verified
                                            THEN <<Call("images", p.fileKey,
                                                        p.nodeId, img.ok, "")>>
                                            ELSE <<>>
                             exported == verified /\ img.ok /\ img.image # ""
                             message == IF ~verified THEN "Failed to verify node"
                                        ELSE IF ~exported
                                          THEN "Failed to export image"
                                        ELSE ""
                         IN /\ cacheNodeDetails' =
                                 [cacheNodeDetails EXCEPT ![key] = r.entry]
                            /\ detailFetched' =
                                 IF Succeeded(r.calls, "nodes")
                                   THEN detailFetched \cup {key}
                                   ELSE detailFetched
                            /\ detailRefetched' =
                                 IF CalledAgain(r.calls, "nodes",
                                                key \in detailFetched)
                                   THEN detailRefetched \cup {key}
                                   ELSE detailRefetched
                            /\ last' = [NoObs EXCEPT
                                          !.op = "export_component_image",
                                          !.uri = nodeUri,
                                          !.fileKey = p.fileKey,
                                          !.nodeId = p.nodeId,
                                          !.error = message,
                                          !.result =
                                            IF exported
                                              THEN <<[ok |-> TRUE,
                                                      message |-> img.image,
                                                      help |-> <<>>]>>
                                              ELSE <<ErrorText(message)>>,
                                          !.calls = p.calls \o r.calls
                                                      \o imageCall,
                                          !.files = p.list,
                                          !.scale = IF verified
                                                      THEN <<scale>>
                                                      ELSE <<>>]
  /\ UNCHANGED <<FIGMA_DEFAULT_FILE, activeFileKey, cacheFileNodes,
                 firstNodes, lastSetKey, nodesRefetched>>

\* ------------------------------------------------------------------ prompts
\* request.params.name of a get-prompt request: a prompt the server has
\* ("suggest_improvements" differs from it in the text only) and one it does
\* not have.
PromptNames == {"describe_design", "other"}

\* nodes.slice(0, 5)
EmbeddedNodes == 5

\* Outcomes of the nodes calls the embedding issues, one per node: none for
\* a node whose detail the cache holds, a failure or a blob for the others
\* (the prompt only serialises the blob, whatever it holds).
EmbedRemotes(details, fileKey, nodes) ==
  {r \in [1..Len(nodes) -> {NoNodes, [ok |-> TRUE, nodeData |-> "d1"]}] :
     \A i \in 1..Len(nodes) :
       Truthy(details[CacheKey(fileKey, nodes[i].id)]) => r[i] = NoNodes}

RECURSIVE embedNodes(_, _, _, _, _, _)
\* Promise.all(nodes.slice(0, 5).map(node => fetchNodeDetails(key, node.id))),
\* from the i-th node on: every call reads the cache as it is when the map
\* starts (each runs up to its first await before the next starts) and writes
\* its own entry when its response arrives.
embedNodes(before, details, fileKey, nodes, i, resps) ==
  IF i > Len(nodes)
    THEN [details |-> details, result |-> <<>>, calls |-> <<>>]
  ELSE LET key == CacheKey(fileKey, nodes[i].id)
           d == fetchNodeDetails(before[key], fileKey, nodes[i].id, resps[i])
           rest == embedNodes(before,
                              IF d.calls # <<>> /\ resps[i].ok
                                THEN [details EXCEPT ![key] = d.entry]
                                ELSE details,
                              fileKey, nodes, i + 1, resps)
       IN [details |-> rest.details, result |-> <<d.result>> \o rest.result,
           calls |-> d.calls \o rest.calls]

\* The keys of the details a call log fetched.
FetchedKeys(calls) ==
  {CacheKey(calls[i].fileKey, calls[i].nodeId) :
     i \in {j \in 1..Len(calls) : calls[j].endpoint = "nodes" /\ calls[j].ok}}

\* The keys of the details a call log asked for although they had been
\* fetched before.
RefetchedKeys(calls, fetched) ==
  {CacheKey(calls[i].fileKey, calls[i].nodeId) :
     i \in {j \in 1..Len(calls) :
              /\ calls[j].endpoint = "nodes"
              /\ CacheKey(calls[j].fileKey, calls[j].nodeId) \in fetched}}

\* The GetPrompt handler: getActiveFile(), fetchFileNodes of the active file,
\* fetchNodeDetails of its first nodes, and only then the switch on the name
\* of the prompt.  Every error is thrown out of the handler.
GetPrompt ==
  /\ \E prompt \in PromptNames :
     \E rem \in FilesRemotes(cacheFiles, activeFileKey, FIGMA_DEFAULT_FILE) :
     \E a \in {getActiveFile(cacheFiles, activeFileKey, FIGMA_DEFAULT_FILE,
                             rem.list, rem.direct)} :
       /\ cacheFiles' = a.files
       /\ listFetched' = (listFetched \/ Succeeded(a.calls, "list"))
       /\ listRefetched' =
            (listRefetched \/ CalledAgain(a.calls, "list", listFetched))
       /\ IF a.result = <<>>
            THEN /\ last' = [NoObs EXCEPT !.op = "get_prompt",
                                          !.name = prompt, !.raised = TRUE,
                                          !.error = "No Figma files available",
                                          !.calls = a.calls]
                 /\ UNCHANGED <<cacheFileNodes, cacheNodeDetails, firstNodes,
                                nodesRefetched, detailFetched, detailRefetched>>
            ELSE
              LET key == a.result[1].key IN
              \E resp \in NodesRemotes(cacheFileNodes[key], key) :
              \E n \in {fetchFileNodes(cacheFileNodes[key], key,
                                       DefaultMaxNodes, DefaultMaxDepth, resp)} :
                /\ cacheFileNodes' = [cacheFileNodes EXCEPT ![key] = n.entry]
                /\ firstNodes' =
                     IF firstNodes[key] = <<>> /\ Succeeded(n.calls, "file")
                       THEN [firstNodes EXCEPT ![key] = <<n.result>>]
                       ELSE firstNodes
                /\ nodesRefetched' =
                     IF CalledAgain(n.calls, "file", firstNodes[key] # <<>>)
                       THEN nodesRefetched \cup {key} ELSE nodesRefetched
                /\ IF n.result = <<>>
                     THEN /\ last' = [NoObs EXCEPT
                                        !.op = "get_prompt", !.name = prompt,
                                        !.fileKey = key, !.raised = TRUE,
                                        !.error = "No components or frames found",
                                        !.calls = a.calls \o n.calls]
                          /\ UNCHANGED <<cacheNodeDetails, detailFetched,
                                         detailRefetched>>
                     ELSE
                       LET shown == SubSeq(n.result, 1,
                                           IF Len(n.result) < EmbeddedNodes
                                             THEN Len(n.result)
                                             ELSE EmbeddedNodes) IN
                       \E resps \in EmbedRemotes(cacheNodeDetails, key, shown) :
                       \E e \in {embedNodes(cacheNodeDetails, cacheNodeDetails,
                                            key, shown, 1, resps)} :
                         /\ cacheNodeDetails' = e.details
                         /\ detailFetched' =
                              detailFetched \cup FetchedKeys(e.calls)
                         /\ detailRefetched' =
                              detailRefetched \cup
                                RefetchedKeys(e.calls, detailFetched)
                         /\ last' = [NoObs EXCEPT
                                       !.op = "get_prompt", !.name = prompt,
                                       !.fileKey = key,
                                       !.result = IF prompt = "other" THEN <<>>
                                                  ELSE e.result,
                                       !.raised = (prompt = "other"),
                                       !.error = IF prompt = "other"
                                                   THEN "Unknown prompt"
                                                   ELSE "",
                                       !.calls = a.calls \o n.calls \o e.calls]
  /\ UNCHANGED <<FIGMA_DEFAULT_FILE, activeFileKey, lastSetKey>>

\* ---------------------------------------------------------- specifications
\* One more request is served, of at most MaxRequests.
Tick == served < MaxRequests /\ served' = served + 1

\* The request for design tokens is one for the default format, answered
\* (when the file is fetched) with the first document: the specifications
\* about the file list and the pointer leave the other formats and documents
\* to SpecTokens.
DefaultTokens == last'.format = "json" /\ last'.document \in {"", "DocKit"}

\* The request for an image is one at the default scale: the specifications
\* about addresses and handlers leave the other scales to SpecExport.
DefaultScale == last'.scale \in {<<>>, <<1>>}

\* Every request, one at a time, MaxRequests of them.
Next ==
  \/ Tick /\ FetchFigmaFiles /\ UNCHANGED aux
  \/ Tick /\ GetActiveFile /\ UNCHANGED aux
  \/ Tick /\ SetActiveFigmaFile /\ UNCHANGED aux
  \/ Tick /\ ExtractDesignTokens /\ DefaultTokens /\ UNCHANGED aux
  \/ Tick /\ FetchFileNodes /\ UNCHANGED aux
  \/ Tick /\ FetchFileNodesDefault /\ UNCHANGED aux
  \/ Tick /\ FetchNodeDetails /\ UNCHANGED aux

Spec == Init /\ [][Next]_vars

\* The requests that read or write the file list and the active-file
\* pointer, in any number and order.
FilesNext ==
  \/ FetchFigmaFiles /\ UNCHANGED <<served, aux>>
  \/ GetActiveFile /\ UNCHANGED <<served, aux>>
  \/ SetActiveFigmaFile /\ UNCHANGED <<served, aux>>
  \/ ExtractDesignTokens /\ DefaultTokens /\ UNCHANGED <<served, aux>>

SpecFiles == Init /\ [][FilesNext]_vars

\* Handlers interleaved at the awaits of fetchFigmaFiles(): while one
\* listing is suspended, requests that set the active file run to their end;
\* listings that find the list cached run between them.
InterleavedNext ==
  \/ ListingStart /\ UNCHANGED <<served, listed, prevFailed, startup, tokensSeen>>
  \/ ListingAnswered /\ UNCHANGED <<served, listed, prevFailed, startup, tokensSeen>>
  \/ DirectAnswered /\ UNCHANGED <<served, listed, prevFailed, startup, tokensSeen>>
  \/ SetActiveFigmaFile /\ UNCHANGED <<served, aux>>

SpecInterleaved == Init /\ [][InterleavedNext]_vars

\* The calls that read or write the node lists, in any number and order.
NodesNext ==
  \/ FetchFileNodes /\ UNCHANGED <<served, aux>>
  \/ FetchFileNodesDefault /\ UNCHANGED <<served, aux>>

SpecNodes == Init /\ [][NodesNext]_vars

\* Calls of fetchFileNodes, those answered with a malformed document among
\* them.
AtomicNext ==
  \/ FetchFileNodes /\ UNCHANGED <<served, aux>>
  \/ FetchFileNodesDefault /\ UNCHANGED <<served, aux>>
  \/ FetchFileNodesMalformed /\ UNCHANGED <<served, aux>>

SpecAtomic == Init /\ [][AtomicNext]_vars

\* The calls that read or write the node details, in any number and order.
DetailsNext ==
  \/ FetchNodeDetails /\ UNCHANGED <<served, aux>>

SpecDetails == Init /\ [][DetailsNext]_vars

\* The searches by name, in any number and order.
SearchNext ==
  \/ FindNodesByName /\ UNCHANGED <<served, aux>>

SpecSearch == Init /\ [][SearchNext]_vars

\* The resource requests, one at a time, MaxRequests of them.
ResourcesNext ==
  \/ Tick /\ ListResources /\ UNCHANGED <<prevFailed, startup, tokensSeen, inFlight>>
  \/ Tick /\ ReadResource /\ UNCHANGED <<prevFailed, startup, tokensSeen, inFlight>>

SpecResources == Init /\ [][ResourcesNext]_vars

\* What is remembered of a call for the next one: the call itself when every
\* remote call it issued failed.
FailedCall(obs) ==
  IF obs.calls # <<>> /\ \A i \in 1..Len(obs.calls) : ~obs.calls[i].ok
    THEN <<[op |-> obs.op, fileKey |-> obs.fileKey, nodeId |-> obs.nodeId,
            maxNodes |-> obs.maxNodes, maxDepth |-> obs.maxDepth]>>
    ELSE <<>>

Track ==
  prevFailed' = FailedCall(last) /\ UNCHANGED <<listed, startup, tokensSeen, inFlight>>

\* The three cached fetches, one at a time, MaxRequests of them, each
\* remembering whether the one before it failed.
RetryNext ==
  \/ Tick /\ FetchFigmaFiles /\ Track
  \/ Tick /\ FetchFileNodes /\ Track
  \/ Tick /\ FetchFileNodesDefault /\ Track
  \/ Tick /\ FetchNodeDetails /\ Track

SpecRetry == Init /\ [][RetryNext]_vars

\* The tool requests that take a node address and the one that sets the
\* active file, one at a time, MaxRequests of them.
AddressNext ==
  \/ Tick /\ GenerateComponent /\ UNCHANGED aux
  \/ Tick /\ ExportComponentImage /\ DefaultScale /\ UNCHANGED aux
  \/ Tick /\ SetActiveFigmaFile /\ UNCHANGED aux

SpecAddress == Init /\ [][AddressNext]_vars

\* export_component_image with every scale argument, and the request that
\* sets the active file, one at a time, MaxRequests of them.
ExportNext ==
  \/ Tick /\ ExportComponentImage /\ UNCHANGED aux
  \/ Tick /\ SetActiveFigmaFile /\ UNCHANGED aux

SpecExport == Init /\ [][ExportNext]_vars

\* One more request is handled, of at most MaxHandled.
Handle == served < MaxHandled /\ served' = served + 1

\* What is remembered of an answer of extract_design_tokens: its format, the
\* file, the document the remote answered the request with ("" when the file
\* was in the list and nothing was fetched) and the code block.
TokenAnswer(obs) ==
  IF obs.op = "extract_design_tokens" /\ obs.payload # <<>>
    THEN {[format |-> obs.format, fileKey |-> obs.fileKey,
           document |-> obs.document, language |-> obs.payload[1].language,
           output |-> obs.payload[1].output]}
    ELSE {}

\* The requests for design tokens and those that set the active file, one
\* at a time, MaxRequests of them, every answer remembered.
TokensNext ==
  \/ /\ Tick /\ ExtractDesignTokens
     /\ tokensSeen' = tokensSeen \cup TokenAnswer(last')
     /\ UNCHANGED <<listed, prevFailed, startup, inFlight>>
  \/ Tick /\ SetActiveFigmaFile /\ UNCHANGED aux

SpecTokens == Init /\ [][TokensNext]_vars

\* The two traversals of a document, in any number and order.
ScanNext ==
  \/ FetchTopLevelComponents /\ UNCHANGED <<served, aux>>
  \/ FetchFileNodes /\ UNCHANGED <<served, aux>>

SpecScan == Init /\ [][ScanNext]_vars

\* Every handler of the server, one request at a time, MaxHandled of them.
HandlersNext ==
  \/ Handle /\ ListResources /\ UNCHANGED <<prevFailed, startup, tokensSeen, inFlight>>
  \/ Handle /\ ReadResource /\ UNCHANGED <<prevFailed, startup, tokensSeen, inFlight>>
  \/ Handle /\ SetActiveFigmaFile /\ UNCHANGED aux
  \/ Handle /\ FindComponentByName /\ UNCHANGED aux
  \/ Handle /\ GenerateComponent /\ UNCHANGED aux
  \/ Handle /\ ExportComponentImage /\ DefaultScale /\ UNCHANGED aux
  \/ Handle /\ ExtractDesignTokens /\ UNCHANGED aux
  \/ Handle /\ GetPrompt /\ UNCHANGED aux

SpecHandlers == Init /\ [][HandlersNext]_vars

\* The process from its start: the module is loaded, main() connects the
\* transport, then requests are served, MaxRequests of them.  The top level
\* of the module runs to its end once the process has started.
StartupNext ==
  \/ LoadModule
  \/ Main
  \/ Serving /\ Tick /\ SetActiveFigmaFile /\ UNCHANGED aux
  \/ Serving /\ Tick /\ GetActiveFile /\ UNCHANGED aux
  \/ Serving /\ Tick /\ FindComponentByName /\ UNCHANGED aux

SpecStartup == Startup /\ [][StartupNext]_vars /\ WF_vars(LoadModule)

\* ================================================================== claims
\* The file call of the latest request, when it issued exactly one.
FileCallOf(obs) ==
  SelectSeq(obs.calls, LAMBDA c : c.endpoint = "file")

\* The list is `files` with one record of key k appended.
AppendedTo(files, after, k) ==
  /\ Len(after) = Len(files) + 1
  /\ SubSeq(after, 1, Len(files)) = files
  /\ after[Len(after)].key = k

\* C1: when set_active_figma_file's direct fetch of the file fails, the
\* handler reports an error and leaves the active-file pointer and the
\* cached file list exactly as they were, whatever the state before.
C1_SetActiveFailureNoMutation ==
  [][ ( /\ last'.op = "set_active_figma_file"
        /\ Issued(last'.calls, "file")
        /\ ~Succeeded(last'.calls, "file") )
      => ( /\ last'.raised
           /\ activeFileKey' = activeFileKey
           /\ cacheFiles' = cacheFiles ) ]_vars

\* A rejected set_active_figma_file of another key than the active one, with
\* a file list that is not empty.
C1_Witness ==
  /\ last.op = "set_active_figma_file"
  /\ Issued(last.calls, "file") /\ ~Succeeded(last.calls, "file")
  /\ last.fileKey \in FileKeys
  /\ activeFileKey \in FileKeys /\ activeFileKey # last.fileKey
  /\ Len(cacheFiles) > 0

\* C2: when set_active_figma_file's direct fetch succeeds, the pointer is
\* the key and the cached file list holds a file of that key; a file is
\* appended if and only if none of that key was in the list, and no other
\* entry changes.
C2_SetActiveSuccess ==
  [][ ( /\ last'.op = "set_active_figma_file"
        /\ Succeeded(last'.calls, "file") )
      => ( /\ activeFileKey' = last'.fileKey
           /\ Find(cacheFiles', last'.fileKey) # <<>>
           /\ IF Find(cacheFiles, last'.fileKey) = <<>>
                THEN AppendedTo(cacheFiles, cacheFiles', last'.fileKey)
                ELSE cacheFiles' = cacheFiles ) ]_vars

\* An accepted set_active_figma_file of a key already in a list of two files.
C2_Witness ==
  /\ last.op = "set_active_figma_file"
  /\ Succeeded(last.calls, "file")
  /\ Len(cacheFiles) = 2
  /\ cacheFiles[1].key = last.fileKey
  /\ cacheFiles[1].lastModified = "remote"

\* C3: after a set_active_figma_file(k) that reported success, every later
\* getActiveFile returns the file of key k, until the next successful
\* set_active_figma_file.
C3_ActiveFileSticks ==
  (last.op = "getActiveFile" /\ lastSetKey # "")
    => (last.result # <<>> /\ last.result[1].key = lastSetKey)

\* getActiveFile answers with the file set active, which is not the first of
\* the list, and the pointer is not the configured default.
C3_Witness ==
  /\ last.op = "getActiveFile"
  /\ lastSetKey # "" /\ lastSetKey # FIGMA_DEFAULT_FILE
  /\ Len(last.files) >= 2
  /\ last.files[1].key # lastSetKey
  /\ last.result = <<last.files[2]>>

\* C4: getActiveFile returns the file whose key is the active-file pointer
\* when the list it obtained has one, otherwise the first file of the list,
\* and none if and only if the list is empty.
C4_GetActiveFile ==
  last.op = "getActiveFile"
    => /\ (last.result = <<>>) <=> (last.files = <<>>)
       /\ last.files # <<>> =>
            IF \E i \in 1..Len(last.files) : last.files[i].key = activeFileKey
              THEN /\ last.result[1].key = activeFileKey
                   /\ \E i \in 1..Len(last.files) : last.files[i] = last.result[1]
              ELSE last.result = <<last.files[1]>>

\* getActiveFile answers with the second file of a freshly listed file list,
\* the pointer's.
C4_Witness ==
  /\ last.op = "getActiveFile"
  /\ Succeeded(last.calls, "list")
  /\ Len(last.files) = 2
  /\ last.files[2].key = activeFileKey
  /\ last.result = <<last.files[2]>>

\* The listing of the latest request failed and no direct fetch made up for it.
ListingFailed(obs) ==
  /\ obs.op \in {"fetchFigmaFiles", "getActiveFile"}
  /\ Issued(obs.calls, "list") /\ ~Succeeded(obs.calls, "list")
  /\ ~Succeeded(obs.calls, "file")

\* C5: when the list-files call fails and the direct-fetch fallback fails
\* too (or there is no key to try), fetchFigmaFiles yields the empty list
\* and getActiveFile yields no file; neither raises, then or later.
C5_NoFilesIsNotAnError ==
  /\ last.op \in {"fetchFigmaFiles", "getActiveFile"} => ~last.raised
  /\ ListingFailed(last) => (last.files = <<>> /\ last.result = <<>>)

\* getActiveFile after the listing and the direct fetch of the default key
\* have both failed.
C5_Witness ==
  /\ last.op = "getActiveFile"
  /\ ListingFailed(last)
  /\ Issued(last.calls, "file")
  /\ last.result = <<>>

\* The listing of the latest request failed and the direct fetch succeeded.
FellBack(obs) ==
  /\ obs.op \in {"fetchFigmaFiles", "getActiveFile"}
  /\ Issued(obs.calls, "list") /\ ~Succeeded(obs.calls, "list")
  /\ Succeeded(obs.calls, "file")

\* C6: when the list-files call fails and the direct fetch of the pointed-to
\* (else the configured default) key succeeds, the file list is exactly one
\* file of that key, named as the direct-fetch response names it, and
\* getActiveFile returns that file.
C6_FallbackSingleFile ==
  FellBack(last)
    => LET call == FileCallOf(last)[1]
       IN /\ call.fileKey = (IF activeFileKey # "" THEN activeFileKey
                             ELSE FIGMA_DEFAULT_FILE)
          /\ Len(cacheFiles) = 1
          /\ cacheFiles[1].key = call.fileKey
          /\ cacheFiles[1].name = call.name
          /\ last.files = cacheFiles
          /\ last.op = "getActiveFile" => last.result = <<cacheFiles[1]>>

\* getActiveFile after the fallback has answered with the name "App".
C6_Witness ==
  /\ last.op = "getActiveFile"
  /\ FellBack(last)
  /\ FileCallOf(last)[1].name = "App"
  /\ last.result # <<>>

\* C7: after a fetchFileNodes(k) whose remote fetch succeeded, no later
\* fetchFileNodes(k) issues a remote call, and every later call returns the
\* list the first one returned.
C7_NodeListFetchedOnce ==
  /\ nodesRefetched = {}
  /\ (last.op = "fetchFileNodes" /\ firstNodes[last.fileKey] # <<>>)
       => last.result = firstNodes[last.fileKey][1]

\* A fetchFileNodes answered from the cache with a list of two nodes, under
\* other bounds than the ones that list was traversed with.
C7_Witness ==
  /\ last.op = "fetchFileNodes"
  /\ last.calls = <<>>
  /\ last.maxNodes = 1
  /\ firstNodes[last.fileKey] # <<>>
  /\ Len(firstNodes[last.fileKey][1]) = 2

\* C8: once the list-files call (the nodes call of a file-key:node-id) has
\* completed successfully, whatever it returned, no later fetchFigmaFiles
\* (fetchNodeDetails of that key) issues the call again.
C8_FetchedOnce ==
  /\ ~listRefetched
  /\ detailRefetched = {}

\* C9: once the node list of a file key or the detail of a
\* file-key:node-id is populated, the entry is never changed or removed; a
\* file of the cached file list is never removed or altered, the list only
\* grows by appending.
C9_StaleForever ==
  [][ /\ \A k \in AllKeys :
           cacheFileNodes[k] # <<>> => cacheFileNodes'[k] = cacheFileNodes[k]
      /\ \A c \in DetailKeys :
           Truthy(cacheNodeDetails[c])
             => cacheNodeDetails'[c] = cacheNodeDetails[c]
      /\ Len(cacheFiles') >= Len(cacheFiles)
      /\ SubSeq(cacheFiles', 1, Len(cacheFiles)) = cacheFiles ]_vars

\* A listed file list that a later request has appended a file to.
C9_Witness ==
  /\ Len(cacheFiles) = 2
  /\ cacheFiles[1].lastModified = "remote"
  /\ cacheFiles[2].lastModified = "now"
  /\ last.op \in {"set_active_figma_file", "extract_design_tokens"}

\* C10: every fetchFileNodes(fileKey, N, D) returns at most N entries, in
\* every cache state earlier calls lead to, earlier calls on the same key
\* with other bounds included.
C10_AtMostMaxNodes ==
  last.op = "fetchFileNodes" => Len(last.result) <= last.maxNodes

\* The index of the node with the given id in a document.
IndexOf(doc, id) == CHOOSE i \in 1..Len(doc) : doc[i].id = id

RECURSIVE DepthOf(_, _)
\* The depth of node n in the document tree, the root being at depth 0.
DepthOf(doc, n) ==
  IF n = 1 THEN 0
  ELSE LET parent == CHOOSE p \in 1..Len(doc) :
                       \E i \in 1..Len(doc[p].children) : doc[p].children[i] = n
       IN 1 + DepthOf(doc, parent)

\* C11: a bounded full traversal run with maxDepth = D never appends a node
\* whose depth in the document tree is greater than D (the root is at depth 0).
C11_DepthBound ==
  (last.op = "fetchFileNodes" /\ last.document # "")
    => \A i \in 1..Len(last.result) :
         DepthOf(Doc(last.document), IndexOf(Doc(last.document), last.result[i].id))
           <= last.maxDepth

\* A traversal with maxDepth 3 of a document holding a component at depth 3
\* that stopped with room to spare, having appended nodes of depth 2.
C11_Witness ==
  /\ last.op = "fetchFileNodes" /\ last.document = "DocKit"
  /\ last.maxDepth = 3
  /\ Len(last.result) = 2 /\ Len(last.result) < last.maxNodes
  /\ DepthOf(DocKit, IndexOf(DocKit, last.result[2].id)) = 2
  /\ \E n \in 1..Len(DocKit) :
       IsImportant(DocKit[n].type) /\ DepthOf(DocKit, n) = 3

\* The latest fetchFileNodes was answered by a traversal or from the cache.
Served(obs) ==
  obs.op = "fetchFileNodes" /\ (obs.calls = <<>> \/ Succeeded(obs.calls, "file"))

\* C12: for fixed bounds, a fetchFileNodes call that repeats the one before
\* it on the same file key returns the identical ordered list, whether the
\* two were served by a fresh traversal or from the cache.
C12_Idempotent ==
  [][ ( /\ Served(last) /\ Served(last')
        /\ last'.fileKey = last.fileKey
        /\ last'.maxNodes = last.maxNodes
        /\ last'.maxDepth = last.maxDepth )
      => last'.result = last.result ]_vars

\* A call answered from the cache with the three nodes, in visiting order,
\* that the traversal of the sort-sensitive document produced.
C12_Witness ==
  /\ last.op = "fetchFileNodes" /\ last.calls = <<>>
  /\ Len(last.result) = 3
  /\ last.result[1].name = "Screen" /\ last.result[2].name = "Card"
  /\ last.result[3].name = "Inner"
  /\ firstNodes[last.fileKey] = <<last.result>>

RECURSIVE PreOrder(_, _)
\* The nodes of the subtree of n, in depth-first pre-order, children in
\* document order.
PreOrder(doc, n) ==
  LET RECURSIVE Each(_)
      Each(i) == IF i > Len(doc[n].children) THEN <<>>
                 ELSE PreOrder(doc, doc[n].children[i]) \o Each(i + 1)
  IN <<n>> \o Each(1)

\* needle occurs in hay, letter case apart.
ContainsIgnoreCase(hay, needle) ==
  \E off \in 0..(Len(hay) - Len(needle)) :
    \A i \in 1..Len(needle) : Fold(hay[off + i]) = Fold(needle[i])

\* The first `count` elements of a sequence.
Take(seq, count) == SubSeq(seq, 1, IF Len(seq) < count THEN Len(seq) ELSE count)

\* The ids of the named nodes of depth 0..10 whose name contains q, in
\* document order, cut at the count bound.
SubstringMatches(doc, q, count) ==
  Take(SelectSeq(PreOrder(doc, 1),
                 LAMBDA n : /\ DepthOf(doc, n) <= SearchMaxDepth
                            /\ doc[n].name # ""
                            /\ ContainsIgnoreCase(Chars(doc[n].name), Chars(q))),
       count)

\* C13: findNodesByName(file, q) returns, within its depth and count bounds,
\* exactly the nodes whose name contains q as a case-insensitive substring,
\* in document (depth-first pre-order) order, for every query string q.
C13_SubstringSearch ==
  (last.op = "findNodesByName" /\ Succeeded(last.calls, "file"))
    => /\ ~last.raised
       /\ [i \in 1..Len(last.result) |->
             IndexOf(SearchDoc(last.document), last.result[i].id)]
            = SubstringMatches(SearchDoc(last.document), last.name,
                               last.maxResults)

\* C13 holds of the queries made of letters, digits and hyphens only.
C13_PlainQueries ==
  (last.op = "findNodesByName" /\ last.name \in {"nav", "NAV", "", "oo"})
    => C13_SubstringSearch

\* The node ids a listing can carry in a node URI.
ListedIds == NodeIds \cup {"1:3", "3:2", "3:3", "3:4", "9:0"}

\* C14: every resource URI that list-resources emits is resolvable by
\* read-resource: figma://file/{fileKey} yields the payload {fileKey, nodes}
\* of that file key, figma://node/{fileKey}/{nodeId} the node detail of that
\* file key and node id, and read-resource rejects neither.
C14_ListedUrisResolve ==
  (last.op = "read_resource" /\ last.uri \in listed)
    => /\ ~last.raised
       /\ \/ \E k \in AllKeys :
               last.uri = FileUri(k) /\ last.result[1].fileKey = k
          \/ \E k \in AllKeys, n \in ListedIds :
               last.uri = NodeUri(k, n) /\ last.fileKey = k /\ last.nodeId = n

\* The latest request ran fetchFileNodes or fetchNodeDetails and the remote
\* call of that fetch failed.
NodeFetchFailed(obs) ==
  /\ obs.op \in {"read_resource", "list_resources"}
  /\ obs.op = "list_resources" => obs.fileKey # ""
  /\ obs.calls # <<>>
  /\ obs.calls[Len(obs.calls)].endpoint \in {"file", "nodes"}
  /\ ~obs.calls[Len(obs.calls)].ok

\* C19: a failed remote fetch inside fetchFileNodes or fetchNodeDetails is
\* reported as an error by read-resource and list-resources, not as an empty
\* node list or a null detail.
C19_RemoteFailureSurfaced ==
  NodeFetchFailed(last) => last.raised

\* The latest call repeats the one before it, which failed at the remote.
RetryOfFailed ==
  /\ prevFailed # <<>>
  /\ prevFailed[1] = [op |-> last.op, fileKey |-> last.fileKey,
                      nodeId |-> last.nodeId, maxNodes |-> last.maxNodes,
                      maxDepth |-> last.maxDepth]

\* C20: after fetchFigmaFiles, fetchFileNodes(k) or fetchNodeDetails(k, n)
\* has failed at the remote, the next identical call issues the remote call
\* again and, if the remote now succeeds, returns the result and caches it.
C20_FailureNotCached ==
  RetryOfFailed =>
    CASE last.op = "fetchFigmaFiles" ->
           /\ Issued(last.calls, "list")
           /\ (Succeeded(last.calls, "list") \/ Succeeded(last.calls, "file"))
                => cacheFiles = last.result
      [] last.op = "fetchFileNodes" ->
           /\ Issued(last.calls, "file")
           /\ Succeeded(last.calls, "file")
                => cacheFileNodes[last.fileKey] = <<last.result>>
      [] last.op = "fetchNodeDetails" ->
           /\ Issued(last.calls, "nodes")
           /\ Succeeded(last.calls, "nodes")
                => cacheNodeDetails[CacheKey(last.fileKey, last.nodeId)]
                     = last.result[1]

\* A fetchFileNodes that failed, repeated, and answered with two nodes the
\* second time.
C20_Witness ==
  /\ RetryOfFailed
  /\ last.op = "fetchFileNodes"
  /\ Succeeded(last.calls, "file")
  /\ Len(last.result) = 2
  /\ cacheFileNodes[last.fileKey] = <<last.result>>

\* The latest request is one of the two tools that take a node address.
AddressTool(obs) == obs.op \in {"generate_component", "export_component_image"}

\* C15: for every file key without a slash and every non-empty node id, node
\* ids that hold slashes included, generate_component and
\* export_component_image parse figma://node/{fileKey}/{nodeId} to exactly
\* that file key and node id.
C15_QualifiedForm ==
  AddressTool(last) =>
    \A k \in FileKeys, n \in {"1:2", "1:2/3"} :
      last.uri = Qualified(k, n) => (last.fileKey = k /\ last.nodeId = n)

\* export_component_image went as far as the image call on the node id with
\* a slash that it parsed out of the qualified form.
C15_Witness ==
  /\ last.op = "export_component_image"
  /\ last.uri = Qualified("A", "1:2/3")
  /\ last.nodeId = "1:2/3"
  /\ Issued(last.calls, "images")

\* C16: the short form {fileKey}/{nodeId} is split on the first slash only:
\* for every node id, node ids that hold slashes included, it parses to the
\* file key and node id that figma://node/{fileKey}/{nodeId} parses to.
C16_ShortForm ==
  AddressTool(last) =>
    \A k \in FileKeys, n \in {"1:2", "1:2/3"} :
      last.uri = Short(k, n) => (last.fileKey = k /\ last.nodeId = n)

\* The nodeUri of the latest request is a bare node id.
BareRequest(obs) == AddressTool(obs) /\ obs.uri # <<>> /\ IsBare(obs.uri)

\* C17: whenever the active-file pointer holds a non-empty key K, the two
\* tools, given a bare node id N, operate on file key K and node id N.
C17_BareIdUsesPointer ==
  (BareRequest(last) /\ activeFileKey # "")
    => (last.fileKey = activeFileKey /\ Chars(last.nodeId) = last.uri)

\* C17, amended: given a bare node id N, the two tools operate on node id N
\* of the file getActiveFile resolves to: the file of the pointer's key when
\* the file list holds one, else the first file of the list; with an empty
\* file list the address is not resolved and no node is fetched.
C17_BareIdUsesResolvedFile ==
  BareRequest(last) =>
    IF last.files = <<>>
      THEN last.fileKey = "" /\ ~Issued(last.calls, "nodes")
      ELSE /\ last.fileKey =
                 (IF Find(last.files, activeFileKey) # <<>>
                    THEN activeFileKey ELSE last.files[1].key)
           /\ Chars(last.nodeId) = last.uri

\* A bare node id resolved against the pointer's file, which is the second
\* of the list, and fetched there.
C17_Witness ==
  /\ BareRequest(last)
  /\ Len(last.files) = 2 /\ last.files[2].key = activeFileKey
  /\ last.fileKey = activeFileKey /\ last.nodeId = "1:2"
  /\ Succeeded(last.calls, "nodes")

\* C18: whenever one of the two tools cannot resolve its node address, it
\* does not raise: it returns an error response whose text lists the three
\* accepted address shapes with an example of each.
C18_UnresolvedAddressHelp ==
  (AddressTool(last) /\ last.fileKey = "")
    => /\ ~last.raised
       /\ last.result # <<>> /\ ~last.result[1].ok
       /\ Len(last.result[1].help.shapes) = 3
       /\ Len(last.result[1].help.examples) = 3

\* C18 holds of every nodeUri that is not the empty string.
C18_NonEmptyUri ==
  (AddressTool(last) /\ last.uri # <<>>) => C18_UnresolvedAddressHelp

\* C21: the active-file pointer changes in one way only: a step that changes
\* it is a set_active_figma_file whose fetch of the file succeeded; every
\* other request (list and read resources, find_component_by_name with or
\* without a fileKey, generate_component, export_component_image,
\* extract_design_tokens, get-prompt) and every failed set_active_figma_file
\* leaves it as it was, whatever the remote answers.
C21_PointerChangedBySetActiveOnly ==
  [][ activeFileKey' # activeFileKey
      => ( /\ last'.op = "set_active_figma_file"
           /\ Succeeded(last'.calls, "file") ) ]_vars

\* A find_component_by_name with an explicit fileKey that found nodes in a
\* file other than the active one: the pointer still names the active one.
C21_Witness ==
  /\ last.op = "find_component_by_name"
  /\ last.result # <<>>
  /\ last.fileKey \in FileKeys
  /\ activeFileKey \in FileKeys
  /\ activeFileKey # last.fileKey

\* C22: when the API credential is missing at startup, the process never
\* gets past the check of the credential: it never connects the transport
\* and never handles a request, and it does exit, with status 1.
C22_MissingCredentialIsFatal ==
  /\ [](FIGMA_API_KEY = ""
          => ( /\ pc \in {"config", "done"}
               /\ pc = "done" => exited = <<1>>
               /\ served = 0
               /\ last = NoObs ))
  /\ (FIGMA_API_KEY = "" ~> (pc = "done" /\ exited = <<1>>))

\* The process has exited with status 1 for want of the credential.
C22_Witness ==
  /\ FIGMA_API_KEY = ""
  /\ pc = "done"
  /\ exited = <<1>>
  /\ served = 0

\* The file resources among the resources of a listing, in order.
FileResources(resources) == SelectSeq(resources, LAMBDA r : r.kind = "file")

\* resolve() on a file list that is not empty: the file of the pointer's key
\* when the list holds one, the first file otherwise.
Resolved(files, active) ==
  IF \E i \in 1..Len(files) : files[i].key = active
    THEN files[CHOOSE i \in 1..Len(files) : files[i].key = active]
    ELSE files[1]

\* C23: list-resources returns one file resource per file of the file list
\* it listed, in the order of the list; when it returns a file resource at
\* all, the list is the cached file list, exactly one file resource is marked
\* active and it is the file getActiveFile resolves to; every node resource
\* is a node of that file and there is none when no file resource is marked.
C23_ListResources ==
  last.op = "list_resources"
    => LET F == FileResources(last.result)
           marked == {i \in 1..Len(F) : F[i].isActive}
       IN /\ Len(F) = Len(last.files)
          /\ \A i \in 1..Len(F) :
               /\ F[i].fileKey = last.files[i].key
               /\ F[i].uri = FileUri(last.files[i].key)
          /\ Len(F) > 0
               => /\ last.files = cacheFiles
                  /\ Cardinality(marked) = 1
                  /\ \A i \in marked :
                       F[i].fileKey = Resolved(cacheFiles, activeFileKey).key
          /\ \A j \in 1..Len(last.result) :
               last.result[j].kind = "node"
                 => /\ marked # {}
                    /\ last.result[j].fileKey =
                         Resolved(cacheFiles, activeFileKey).key
                    /\ \E n \in 1..Len(cacheFileNodes[last.result[j].fileKey][1]) :
                         cacheFileNodes[last.result[j].fileKey][1][n].id =
                           last.result[j].nodeId

\* A listing of two files of which the second, the pointer's, is marked
\* active and followed by its nodes.
C23_Witness ==
  /\ last.op = "list_resources"
  /\ Len(last.files) = 2
  /\ last.files[2].key = activeFileKey
  /\ Len(last.result) > 3
  /\ last.result[2].kind = "file" /\ last.result[2].isActive
  /\ last.result[3].kind = "node"
  /\ last.result[3].fileKey = activeFileKey

\* Whether an INSTANCE is among the direct children of a page of the document.
InstanceOnPage(doc) ==
  \E p \in 1..Len(doc[1].children) :
    \E c \in 1..Len(doc[doc[1].children[p]].children) :
      doc[doc[doc[1].children[p]].children[c]].type = "INSTANCE"

\* Whether no bounded full traversal of the document returns the node,
\* whatever its bounds.
NeverTraversed(doc, id) ==
  \A maxNodes \in 1..Len(doc), maxDepth \in 0..Len(doc) :
    LET nodes == traverseNodes(doc, 1, 0, <<>>, maxNodes, maxDepth)
    IN \A i \in 1..Len(nodes) : nodes[i].id # id

\* The vocabularies of the two traversals: what fetchFileNodes returns is of
\* type FRAME, COMPONENT or COMPONENT_SET, what fetchTopLevelComponents
\* returns of type COMPONENT, COMPONENT_SET, FRAME or INSTANCE.
Vocabularies ==
  /\ last.op = "fetchFileNodes"
       => \A i \in 1..Len(last.result) :
            last.result[i].type \in {"FRAME", "COMPONENT", "COMPONENT_SET"}
  /\ (last.op = "fetchTopLevelComponents" /\ ~last.raised)
       => \A i \in 1..Len(last.result) :
            last.result[i].type \in
              {"COMPONENT", "COMPONENT_SET", "FRAME", "INSTANCE"}

\* C24 as stated: the two traversals keep to their vocabularies, and on a
\* document with an INSTANCE among a page's direct children the shallow scan
\* returns a node that the full traversal never returns.
C24_ScanReturnsInstance ==
  /\ Vocabularies
  /\ ( /\ last.op = "fetchTopLevelComponents" /\ ~last.raised
       /\ InstanceOnPage(Doc(last.document)) )
       => \E i \in 1..Len(last.result) :
            NeverTraversed(Doc(last.document), last.result[i].id)

\* C24, amended: the two traversals keep to their vocabularies, and on a
\* document with an INSTANCE among a page's direct children a shallow scan
\* that ends below its limit returns a node that the full traversal never
\* returns.
C24_ScanBelowLimitReturnsInstance ==
  /\ Vocabularies
  /\ ( /\ last.op = "fetchTopLevelComponents" /\ ~last.raised
       /\ InstanceOnPage(Doc(last.document))
       /\ Len(last.result) < last.maxResults )
       => \E i \in 1..Len(last.result) :
            /\ last.result[i].type = "INSTANCE"
            /\ NeverTraversed(Doc(last.document), last.result[i].id)

\* A shallow scan with the default limit that returned the INSTANCE of the
\* second page after the frames and components of the first.
C24_Witness ==
  /\ last.op = "fetchTopLevelComponents" /\ ~last.raised
  /\ last.maxResults = DefaultLimit
  /\ InstanceOnPage(Doc(last.document))
  /\ Len(last.result) > 1
  /\ last.result[1].type = "FRAME"
  /\ last.result[Len(last.result)].type = "INSTANCE"
  /\ NeverTraversed(Doc(last.document), last.result[Len(last.result)].id)

\* C25: for a fixed format, any two answers of extract_design_tokens carry
\* the same code block (language and text), whatever the files they were
\* asked about and whatever the documents of those files: they differ at
\* most in the file name shown.
C25_TokensIndependentOfFile ==
  \A s, t \in tokensSeen :
    s.format = t.format
      => s.language = t.language /\ s.output = t.output

\* Two answers in one format about two files whose documents, both fetched
\* for the request, differ.
C25_Witness ==
  \E s, t \in tokensSeen :
    /\ s.format = t.format
    /\ s.fileKey # t.fileKey
    /\ s.document # "" /\ t.document # ""
    /\ s.document # t.document

\* The image requests of the observed answer.
ImageCalls == {i \in 1..Len(last.calls) : last.calls[i].endpoint = "images"}

\* C26: every image-export request that export_component_image sends carries
\* an integer scale between MinScale and MaxScale, whatever scale argument the
\* caller supplied.
C26_ScaleInRange ==
  (last.op = "export_component_image" /\ ImageCalls # {})
    => /\ last.scale # <<>>
       /\ last.scale[1] \in MinScale..MaxScale

\* Two remote calls are the same call: same endpoint and parameters.
SameCall(a, b) ==
  a.endpoint = b.endpoint /\ a.fileKey = b.fileKey /\ a.nodeId = b.nodeId

\* C27: within the handling of one request, once a remote call has failed the
\* same remote call (same endpoint and parameters) is not issued again, for
\* every handler, list-resources with a failing file listing included.
C27_NoInternalRetry ==
  \A i, j \in 1..Len(last.calls) :
    (i < j /\ ~last.calls[i].ok) => ~SameCall(last.calls[i], last.calls[j])

\* The node n of the document is among the nodes the observed call returned.
Appended(doc, n) ==
  \E i \in 1..Len(last.result) : last.result[i].id = doc[n].id

\* C28: a bounded full traversal with maxDepth = D that ends below its count
\* bound has appended every FRAME, COMPONENT or COMPONENT_SET node at depth
\* exactly D, and the document root when the root is of such a type.
C28_DepthExactlyAppended ==
  (/\ last.op = "fetchFileNodes" /\ last.document # ""
   /\ Len(last.result) < last.maxNodes)
    => \A n \in 1..Len(Doc(last.document)) :
         (/\ IsImportant(Doc(last.document)[n].type)
          /\ (n = 1 \/ DepthOf(Doc(last.document), n) = last.maxDepth))
           => Appended(Doc(last.document), n)

\* The children with those of type FRAME, COMPONENT or COMPONENT_SET before
\* all others, the relative order inside each group kept.
ImportantFirst(doc, children) ==
  LET RECURSIVE Group(_, _)
      Group(i, wanted) ==
        IF i > Len(children) THEN <<>>
        ELSE (IF IsImportant(doc[children[i]].type) = wanted
                THEN <<children[i]>> ELSE <<>>) \o Group(i + 1, wanted)
  IN Group(1, TRUE) \o Group(1, FALSE)

RECURSIVE WalkOrder(_, _)
\* The nodes of the subtree of n in depth-first pre-order, the children of
\* every node taken important ones first.
WalkOrder(doc, n) ==
  LET kids == ImportantFirst(doc, doc[n].children)
      RECURSIVE Each(_)
      Each(i) == IF i > Len(kids) THEN <<>>
                 ELSE WalkOrder(doc, kids[i]) \o Each(i + 1)
  IN <<n>> \o Each(1)

\* The matches of the walk under the depth bound, in visiting order: the
\* nodes of type FRAME, COMPONENT or COMPONENT_SET among the nodes the
\* traversal looks at, which are those above depth maxDepth.
WalkMatches(doc, maxDepth) ==
  SelectSeq(WalkOrder(doc, 1),
            LAMBDA n : DepthOf(doc, n) < maxDepth /\ IsImportant(doc[n].type))

\* C29: on a cache miss, fetchFileNodes with maxNodes = N returns exactly the
\* first N matches of the depth-bounded pre-order walk that visits, at every
\* node, the children of type FRAME, COMPONENT or COMPONENT_SET before the
\* others in their original relative order; nothing after the N-th match
\* contributes.
C29_FirstMatchesOfSortedWalk ==
  (last.op = "fetchFileNodes" /\ last.document # "")
    => /\ [i \in 1..Len(last.result) |->
             IndexOf(Doc(last.document), last.result[i].id)]
            = Take(WalkMatches(Doc(last.document), last.maxDepth),
                   last.maxNodes)
       /\ \A i \in 1..Len(last.result) :
            last.result[i] = Summary(Doc(last.document)[
                               IndexOf(Doc(last.document), last.result[i].id)])

\* A traversal of the sort-sensitive document cut at two nodes: the frame and
\* the component below it came before the frame under the group, which no
\* longer contributed.
C29_Witness ==
  /\ last.op = "fetchFileNodes" /\ last.document = "DocApp"
  /\ last.maxNodes = 2 /\ last.maxDepth = 3
  /\ Len(last.result) = 2
  /\ last.result[1].name = "Screen" /\ last.result[2].name = "Card"
  /\ Len(WalkMatches(DocApp, 3)) = 3

\* The queries without regular-expression metacharacters, for which the
\* pattern test is the substring test.
PlainQueries == {"nav", "NAV", "", "oo"}

\* C30: findNodesByName(file, q, R) returns at most R matches, none of them
\* deeper than depth 10 (root = 0); it searches the nodes of depth 0 through
\* 10, so a matching node at depth exactly 10 is returned when the count
\* bound permits; and what it returns is the first R matches in document
\* order, nothing after the R-th being searched.
C30_SearchBounds ==
  (last.op = "findNodesByName" /\ Succeeded(last.calls, "file") /\ ~last.raised)
    => LET doc == SearchDoc(last.document)
           found == [i \in 1..Len(last.result) |->
                       IndexOf(doc, last.result[i].id)]
       IN /\ Len(last.result) <= last.maxResults
          /\ \A i \in 1..Len(found) : DepthOf(doc, found[i]) <= SearchMaxDepth
          /\ last.name \in PlainQueries
               => /\ found = SubstringMatches(doc, last.name, last.maxResults)
                  /\ Len(found) < last.maxResults
                       => \A n \in 1..Len(doc) :
                            (/\ DepthOf(doc, n) = SearchMaxDepth
                             /\ doc[n].name # ""
                             /\ ContainsIgnoreCase(Chars(doc[n].name),
                                                   Chars(last.name)))
                              => \E i \in 1..Len(found) : found[i] = n

\* A search of the chain document for "nav" with room to spare: the match at
\* depth 10 is returned, the matches at depth 11 and 12 are not.
C30_Witness ==
  /\ last.op = "findNodesByName" /\ last.document = "DocDeep"
  /\ last.name = "nav" /\ ~last.raised
  /\ Len(last.result) = 1 /\ last.maxResults > 1
  /\ last.result[1].name = "nav-deep"
  /\ DepthOf(DocDeep, IndexOf(DocDeep, last.result[1].id)) = SearchMaxDepth
  /\ \E n \in 1..Len(DocDeep) :
       DocDeep[n].name = "nav-deeper" /\ DepthOf(DocDeep, n) > SearchMaxDepth

RECURSIVE Ancestors(_, _)
\* The proper ancestors of node n in the document tree.
Ancestors(doc, n) ==
  IF n = 1 THEN {}
  ELSE LET parent == CHOOSE p \in 1..Len(doc) :
                       \E i \in 1..Len(doc[p].children) : doc[p].children[i] = n
       IN {parent} \cup Ancestors(doc, parent)

\* C31: in name search a node without a name never matches, whatever the
\* query, the empty query included; the nodes below it are still searched,
\* so a matching node below a nameless one is returned when the count bound
\* permits.
C31_NamelessNeverMatches ==
  (last.op = "findNodesByName" /\ Succeeded(last.calls, "file") /\ ~last.raised)
    => LET doc == SearchDoc(last.document)
           found == {IndexOf(doc, last.result[i].id) :
                       i \in 1..Len(last.result)}
       IN /\ \A n \in found : doc[n].name # ""
          /\ (last.name \in PlainQueries /\ Len(last.result) < last.maxResults)
               => \A n \in 1..Len(doc) :
                    (/\ \E a \in Ancestors(doc, n) : doc[a].name = ""
                     /\ DepthOf(doc, n) <= SearchMaxDepth
                     /\ doc[n].name # ""
                     /\ ContainsIgnoreCase(Chars(doc[n].name), Chars(last.name)))
                      => n \in found

\* A search with the empty query with room to spare: the eight named nodes
\* are returned, the nameless node is not, the node below it is.
C31_Witness ==
  /\ last.op = "findNodesByName" /\ last.document = "DocNav"
  /\ last.name = "" /\ ~last.raised
  /\ Len(last.result) = 8 /\ last.maxResults > 8
  /\ last.result[8].id = "4:6"
  /\ DocNav[7].name = "" /\ DocNav[7].children = <<9>>
  /\ \A i \in 1..8 : last.result[i].id # DocNav[7].id

\* The position of node n in the walk.
WalkPosition(doc, n) ==
  CHOOSE i \in 1..Len(WalkOrder(doc, 1)) : WalkOrder(doc, 1)[i] = n

\* The walk under the bounds meets a null node: one that lies above depth
\* maxDepth and has fewer than maxNodes matches before it.
WalkThrows(doc, maxNodes, maxDepth) ==
  \E n \in 1..Len(doc) :
    /\ doc[n].type = NullType
    /\ DepthOf(doc, n) < maxDepth
    /\ Len(SelectSeq(SubSeq(WalkOrder(doc, 1), 1, WalkPosition(doc, n)),
                     LAMBDA m : /\ DepthOf(doc, m) < maxDepth
                                /\ IsImportant(doc[m].type))) < maxNodes

\* The complete list of a finished traversal under the bounds.
CompleteList(doc, maxNodes, maxDepth) ==
  LET matches == Take(WalkMatches(doc, maxDepth), maxNodes)
  IN [i \in 1..Len(matches) |-> Summary(doc[matches[i]])]

\* The complete lists of the finished traversals of the documents, for the
\* bounds a call may pass.
CompleteLists ==
  {CompleteList(Doc(t[1]), t[2], t[3]) :
     t \in {u \in (DocNames \cup {"DocBroken"})
                     \X ((1..MaxNodesArg) \cup {DefaultMaxNodes})
                     \X (2..MaxDepthArg) :
              ~WalkThrows(Doc(u[1]), u[2], u[3])}}

\* The three cache mappings.
cacheMappings == <<cacheFiles, cacheFileNodes, cacheNodeDetails>>

\* C32: a file's node list is written to the cache as a whole.  A
\* fetchFileNodes call that fails, by a remote error or by an error during
\* the traversal, leaves all three cache mappings unchanged; one that
\* finishes its traversal writes the complete list for its key and nothing
\* else; and in every state a cached node list is the complete list of one
\* finished traversal.
C32_AtomicNodeList ==
  [][ /\ (last'.op = "fetchFileNodes" /\ last'.calls # <<>>)
         => IF \/ ~last'.calls[1].ok
               \/ WalkThrows(Doc(last'.document), last'.maxNodes,
                             last'.maxDepth)
              THEN UNCHANGED cacheMappings
              ELSE /\ cacheFileNodes' =
                        [cacheFileNodes EXCEPT ![last'.fileKey] =
                           <<CompleteList(Doc(last'.document), last'.maxNodes,
                                          last'.maxDepth)>>]
                   /\ UNCHANGED <<cacheFiles, cacheNodeDetails>>
      /\ \A k \in FileKeys :
           \/ cacheFileNodes'[k] = <<>>
           \/ cacheFileNodes'[k][1] \in CompleteLists ]_vars

\* A traversal of the malformed document that had collected two nodes when it
\* met the null node: the call returned the empty list and the key has no
\* cached list.
C32_Witness ==
  /\ last.op = "fetchFileNodes" /\ last.document = "DocBroken"
  /\ last.calls # <<>> /\ last.calls[1].ok
  /\ last.maxNodes > 2 /\ last.maxDepth = 3
  /\ WalkThrows(DocBroken, last.maxNodes, last.maxDepth)
  /\ Len(WalkMatches(DocBroken, last.maxDepth)) = 2
  /\ last.result = <<>>
  /\ cacheFileNodes[last.fileKey] = <<>>

\* C33: the shallow top-level scan fetchTopLevelComponents(fileKey, limit)
\* returns at most limit components, for every document, those whose pages
\* are component-like or that hold COMPONENT_SET nodes with children included.
C33_AtMostLimit ==
  last.op = "fetchTopLevelComponents" => Len(last.result) <= last.maxResults

\* C34: set_active_figma_file called without its fileKey argument fails with
\* the error "File key is required" before any remote call is made, and
\* leaves the active-file pointer and the cache unchanged.
C34_MissingFileKeyRejected ==
  [][ (last'.op = "set_active_figma_file" /\ last'.fileKey = String(Missing))
        => /\ last'.raised
           /\ last'.error = "File key is required"
           /\ last'.calls = <<>>
           /\ UNCHANGED <<activeFileKey, cacheMappings>> ]_vars

\* C35: with handlers interleaved at the awaits, once no request is in
\* flight the file of the latest set_active_figma_file that reported success
\* is in the cached file list and is the file resolve() returns.
C35_SetFileSurvivesInterleaving ==
  (inFlight = <<>> /\ lastSetKey # "")
    => /\ \E i \in 1..Len(cacheFiles) : cacheFiles[i].key = lastSetKey
       /\ Resolved(cacheFiles, activeFileKey).key = lastSetKey

\* C36: with requests handled one at a time, whenever the active-file
\* pointer differs from the configured default key, the cached file list
\* holds a File whose key is the pointer.
C36_PointerFileCached ==
  activeFileKey # FIGMA_DEFAULT_FILE
    => \E i \in 1..Len(cacheFiles) : cacheFiles[i].key = activeFileKey

\* The pointer has left the configured default for a file that was appended
\* to a listed file, and a later listing request has found both cached.
C36_Witness ==
  /\ FIGMA_DEFAULT_FILE = "A"
  /\ activeFileKey = "B"
  /\ Len(cacheFiles) = 2
  /\ cacheFiles[2].key = "B" /\ cacheFiles[2].lastModified = "now"
  /\ last.op = "fetchFigmaFiles" /\ last.calls = <<>>

\* C37: with requests handled one at a time and a remote listing of distinct
\* keys, the cached file list never holds two Files of one key, whatever
\* set_active_figma_file and the direct access of extract_design_tokens have
\* appended.
C37_DistinctKeys ==
  \A i, j \in 1..Len(cacheFiles) :
    cacheFiles[i].key = cacheFiles[j].key => i = j

\* A file list of two appended files: one set active, the other appended by
\* extract_design_tokens after its direct fetch.
C37_Witness ==
  /\ Len(cacheFiles) = 2
  /\ cacheFiles[1].lastModified = "now" /\ cacheFiles[2].lastModified = "now"
  /\ cacheFiles[1].key = lastSetKey
  /\ last.op = "extract_design_tokens"
  /\ last.fileKey = cacheFiles[2].key
  /\ Succeeded(last.calls, "file")

\* Every file of the list is one the server made after a direct access.
DirectOnly(files) ==
  \A i \in 1..Len(files) : files[i].lastModified = "now"

\* C38: once the cached file list holds files and holds them through direct
\* accesses only (a successful set_active_figma_file, the listing fallback,
\* the direct fetch of extract_design_tokens), no later request calls the
\* list-files endpoint, and every later file listing, cached or returned,
\* holds directly accessed files only.
C38_NoListingAfterDirectAccess ==
  [][ (Len(cacheFiles) > 0 /\ DirectOnly(cacheFiles))
        => /\ \A i \in 1..Len(last'.calls) : last'.calls[i].endpoint # "list"
           /\ Len(cacheFiles') > 0 /\ DirectOnly(cacheFiles')
           /\ DirectOnly(last'.files) ]_vars

\* The list was filled by direct accesses although the remote's listing
\* never succeeded, and a later getActiveFile was answered from it without a
\* remote call.
C38_Witness ==
  /\ Len(cacheFiles) = 2 /\ DirectOnly(cacheFiles)
  /\ ~listFetched
  /\ last.op = "getActiveFile" /\ last.calls = <<>>
  /\ last.files = cacheFiles

\* The details that carry a document.
WithDocument == {"d1"}

\* C39: export_component_image sends the image-export request only after
\* the node-detail lookup for the same file key and node id has returned a
\* detail with a document: the image request is the last remote call of the
\* request and the only one of its kind, it names the file and node the
\* lookup was for, and the detail the lookup left cached has a document.
\* When the node cannot be verified no image request is sent.
C39_ExportAfterVerification ==
  (last.op = "export_component_image" /\ last.fileKey # "")
    => LET verified ==
             cacheNodeDetails[CacheKey(last.fileKey, last.nodeId)]
               \in WithDocument
       IN IF verified
            THEN /\ ImageCalls = {Len(last.calls)}
                 /\ last.calls[Len(last.calls)].fileKey = last.fileKey
                 /\ last.calls[Len(last.calls)].nodeId = last.nodeId
            ELSE /\ ImageCalls = {}
                 /\ last.error = "Failed to verify node"

\* An export whose node detail was fetched and then its image requested.
C39_Witness ==
  /\ last.op = "export_component_image"
  /\ Len(last.calls) >= 2
  /\ last.calls[Len(last.calls) - 1].endpoint = "nodes"
  /\ last.calls[Len(last.calls) - 1].ok
  /\ last.calls[Len(last.calls)].endpoint = "images"
  /\ last.calls[Len(last.calls)].ok
  /\ last.error = ""

====
